---- MODULE Spec2Model ----
(***************************************************************************)
(* A model of src/src/utils/sql-builder.ts: the SQLBuilder accumulator     *)
(* (parts, parameters, paramCounter), its identifier validator/escaper,    *)
(* its parameter encoder and the statement factories built on it.          *)
(*                                                                         *)
(* A JavaScript string is a sequence of one-character strings, so that     *)
(* joining, splitting, scanning and quoting are computed character by      *)
(* character as the code computes them.                                    *)
(***************************************************************************)
EXTENDS Integers, Sequences, FiniteSets, TLC

VARIABLES parts, parameters, paramCounter, issued, ordered, held, peer, last, input

vars == <<parts, parameters, paramCounter, issued, ordered, held, peer, last, input>>

(***************************************************************************)
(* Bounds of the model.                                                    *)
(***************************************************************************)
\* Calls are made while the builder holds fewer parts than this.
MaxParts == 2
\* Calls are made while the builder holds fewer parameters than this.
MaxParams == 3
\* Field lists of up to this many entries are enumerated exhaustively.
MaxFields == 3
\* orderBy() is called again while the builder holds fewer parts than this.
MaxOrderParts == 6
\* Counts from minus this to this are enumerated exhaustively.
MaxCount == 12
\* Each of two callers makes up to this many calls on its own builder.
MaxCalls == 2

\* Names of up to this many characters are enumerated exhaustively.
MaxNameLen == 4

(***************************************************************************)
(* Characters and strings.                                                 *)
(***************************************************************************)
LowerCase ==
    {"a", "b", "c", "d", "e", "f", "g", "h", "i", "j", "k", "l", "m",
     "n", "o", "p", "q", "r", "s", "t", "u", "v", "w", "x", "y", "z"}

UpperCase ==
    {"A", "B", "C", "D", "E", "F", "G", "H", "I", "J", "K", "L", "M",
     "N", "O", "P", "Q", "R", "S", "T", "U", "V", "W", "X", "Y", "Z"}

DigitChars == {"0", "1", "2", "3", "4", "5", "6", "7", "8", "9"}

\* Array.prototype.join
RECURSIVE arrayJoin(_, _)
arrayJoin(xs, sep) ==
    IF Len(xs) = 0 THEN <<>>
    ELSE IF Len(xs) = 1 THEN xs[1]
    ELSE xs[1] \o sep \o arrayJoin(Tail(xs), sep)

\* String.prototype.includes: pat occurs in text as a contiguous substring
includes(text, pat) ==
    \E i \in 0..(Len(text) - Len(pat)) :
        \A j \in 1..Len(pat) : text[i + j] = pat[j]

\* Array.prototype.includes
arrayIncludes(xs, x) == \E i \in 1..Len(xs) : xs[i] = x

\* String.prototype.split on a one-character separator
RECURSIVE split(_, _)
split(text, sep) ==
    IF \A i \in 1..Len(text) : text[i] # sep THEN <<text>>
    ELSE LET k == CHOOSE i \in 1..Len(text) :
                      text[i] = sep /\ \A j \in 1..(i - 1) : text[j] # sep
         IN <<SubSeq(text, 1, k - 1)>> \o split(SubSeq(text, k + 1, Len(text)), sep)

\* String.prototype.replace(/c/g, rep): every occurrence of the character c
RECURSIVE replaceAll(_, _, _)
replaceAll(text, c, rep) ==
    IF Len(text) = 0 THEN <<>>
    ELSE (IF text[1] = c THEN rep ELSE <<text[1]>>) \o replaceAll(Tail(text), c, rep)

DigitOf(d) ==
    CASE d = 0 -> "0" [] d = 1 -> "1" [] d = 2 -> "2" [] d = 3 -> "3"
      [] d = 4 -> "4" [] d = 5 -> "5" [] d = 6 -> "6" [] d = 7 -> "7"
      [] d = 8 -> "8" [] d = 9 -> "9"

\* The decimal text of an integer, as a template literal or String() gives it
RECURSIVE natToString(_)
natToString(n) ==
    IF n < 10 THEN <<DigitOf(n)>>
    ELSE natToString(n \div 10) \o <<DigitOf(n % 10)>>

intToString(n) == IF n < 0 THEN <<"-">> \o natToString(0 - n) ELSE natToString(n)

(***************************************************************************)
(* Runtime values.  A value is a record [kind, n, d, s]:                   *)
(*   undefined, null        n, d, s unused                                 *)
(*   boolean                n = 1 (true) or 0 (false)                      *)
(*   number                 the rational n/d with d > 0; d = 0 is a        *)
(*                          non-finite number (n = 0: NaN, n = 1 or -1:    *)
(*                          plus or minus Infinity); a number too wide for *)
(*                          n has a fifth field e and is n * 2^e           *)
(*   bigint                 the integer n                                  *)
(*   string                 the characters s                               *)
(*   array                  the elements s (one-character strings)         *)
(*   date                   a Date of n epoch milliseconds; d = 0 is an    *)
(*                          invalid Date, whose getTime() is NaN           *)
(*   object                 any other object, whose JSON.stringify text    *)
(*                          is s; d = 0 when JSON.stringify throws (a      *)
(*                          circular structure)                            *)
(*   function               a function value                               *)
(***************************************************************************)
JSVal(kind, n, d, s) == [kind |-> kind, n |-> n, d |-> d, s |-> s]

Undefined == JSVal("undefined", 0, 1, <<>>)
Null == JSVal("null", 0, 1, <<>>)
Bool(b) == JSVal("boolean", IF b THEN 1 ELSE 0, 1, <<>>)
Num(n) == JSVal("number", n, 1, <<>>)
Ratio(n, d) == JSVal("number", n, d, <<>>)
NaN == JSVal("number", 0, 0, <<>>)
BigInt(n) == JSVal("bigint", n, 1, <<>>)
Str(s) == JSVal("string", 0, 1, s)
Arr(s) == JSVal("array", 0, 1, s)
DateMs(ms) == JSVal("date", ms, 1, <<>>)
InvalidDate == JSVal("date", 0, 0, <<>>)
Obj(json) == JSVal("object", 0, 1, json)
Circular == JSVal("object", 0, 0, <<>>)
Infinity == JSVal("number", 1, 0, <<>>)
Func == JSVal("function", 0, 1, <<>>)

\* the number n * 2^e, for magnitudes past the integers of the model
Pow2(n, e) == [kind |-> "number", n |-> n, d |-> 1, s |-> <<>>, e |-> e]

\* the kinds of value for which typeof gives 'object'
ObjectKinds == {"null", "array", "date", "object"}

\* the typeof operator
typeof(v) ==
    CASE v.kind \in ObjectKinds -> "object"
      [] OTHER -> v.kind

\* value instanceof Date
instanceofDate(v) == v.kind = "date"

\* Array.isArray
isArray(v) == v.kind = "array"

\* Date.prototype.getTime
getTime(v) == IF v.d = 0 THEN NaN ELSE Num(v.n)

\* the / operator on numbers, for a positive integer divisor
divide(x, k) == IF x.d = 0 THEN x ELSE Ratio(x.n, x.d * k)

\* rounding toward zero
MathTrunc(x) ==
    IF x.d = 0 THEN x
    ELSE IF x.n >= 0 THEN Num(x.n \div x.d) ELSE Num(-((-x.n) \div x.d))

\* Math.floor: the greatest integer not above x; a non-finite x is returned
MathFloor(x) == IF x.d = 0 THEN x ELSE Num(x.n \div x.d)

\* Number.isInteger
isInteger(v) == v.kind = "number" /\ v.d # 0 /\ v.n % v.d = 0

(***************************************************************************)
(* A builder is a record of the three fields of SQLBuilder plus issued,    *)
(* a log that no operation reads: one entry [value, ret] per param()       *)
(* invocation that returned on this builder since its construction or its  *)
(* last reset(), in invocation order.                                      *)
(*                                                                         *)
(* Outcome of a call: the builder afterwards (b), the error thrown (err,   *)
(* "none" when the call returns) and the value returned (ret; <<>> for     *)
(* the chainable calls, which return this).                                *)
(***************************************************************************)
Builder(p, ps, c, log) ==
    [parts |-> p, parameters |-> ps, paramCounter |-> c, issued |-> log]

\* new SQLBuilder()
NewBuilder == Builder(<<>>, <<>>, 0, <<>>)

Returns(b, ret) == [b |-> b, err |-> "none", ret |-> ret]

\* a throw that takes the builder's state with it
ThrowsCleared(b, err) == [b |-> NewBuilder, err |-> err, ret |-> <<>>]

Throws(b, err) == [b |-> b, err |-> err, ret |-> <<>>]

\* the message an Error was constructed with, <<>> where none is modelled
Message(r) == IF "message" \in DOMAIN r THEN r.message ELSE <<>>

\* throw new <err>(message)
ThrowsMessage(b, err, message) ==
    LET thrown == Throws(b, err)
    IN [b |-> thrown.b, err |-> thrown.err, ret |-> thrown.ret, message |-> message]

\* r; F(builder after r): the statement after a call runs only if it returned
Then(r, F(_)) == IF r.err # "none" THEN r ELSE F(r.b)

\* const x = r; F(builder after r, x): likewise, using the value returned
Bind(r, F(_, _)) == IF r.err # "none" THEN r ELSE F(r.b, r.ret)

\* const x = id; F(x), for an outcome [err, ret] of identifier() on builder b
BindId(b, id, F(_)) ==
    IF id.err # "none" THEN ThrowsMessage(b, id.err, Message(id)) ELSE F(id.ret)

\* this.parts.push(text)
push(b, text) == [b EXCEPT !.parts = Append(@, text)]

\* An optional argument or option: absent (undefined) or given.
Absent == [given |-> FALSE, value |-> <<>>]
Given(v) == [given |-> TRUE, value |-> v]

\* if (text): a string argument is truthy when given and not empty
truthy(opt) == opt.given /\ Len(opt.value) > 0

(***************************************************************************)
(* Type tags.                                                              *)
(***************************************************************************)
TagUInt8 == <<"U", "I", "n", "t", "8">>
TagDateTime == <<"D", "a", "t", "e", "T", "i", "m", "e">>
TagNullableString ==
    <<"N", "u", "l", "l", "a", "b", "l", "e", "(", "S", "t", "r", "i", "n", "g", ")">>
TagInt32 == <<"I", "n", "t", "3", "2">>
TagFloat64 == <<"F", "l", "o", "a", "t", "6", "4">>
TagInt64 == <<"I", "n", "t", "6", "4">>
TagString == <<"S", "t", "r", "i", "n", "g">>
TagArrayString == <<"A", "r", "r", "a", "y", "(", "S", "t", "r", "i", "n", "g", ")">>

\* the tag decided from the converted value alone
inferFromWire(value, originalValue) ==
    IF value.kind = "null" \/ value.kind = "undefined" THEN TagNullableString
    ELSE CASE typeof(value) = "number" ->
                  IF isInteger(value) THEN TagInt32 ELSE TagFloat64
           [] typeof(value) = "bigint" -> TagInt64
           [] typeof(value) = "string" -> TagString
           [] typeof(value) = "boolean" -> TagUInt8
           [] typeof(value) = "object" ->
                  IF instanceofDate(value) THEN TagDateTime
                  ELSE IF isArray(value) THEN TagArrayString
                  ELSE TagString
           [] OTHER -> TagString

\* the tag Int64 for an integer of 2^31 or more in magnitude
inferWideAsInt64(value, originalValue) ==
    IF originalValue.kind # "undefined" /\ typeof(originalValue) = "boolean"
    THEN TagUInt8
    ELSE IF instanceofDate(originalValue) THEN TagDateTime
    ELSE IF value.kind = "null" \/ value.kind = "undefined" THEN TagNullableString
    ELSE CASE typeof(value) = "number" ->
                  IF isInteger(value)
                  THEN (IF "e" \in DOMAIN value /\ value.e >= 31 THEN TagInt64 ELSE TagInt32)
                  ELSE TagFloat64
           [] typeof(value) = "bigint" -> TagInt64
           [] typeof(value) = "string" -> TagString
           [] typeof(value) = "boolean" -> TagUInt8
           [] typeof(value) = "object" ->
                  IF instanceofDate(value) THEN TagDateTime
                  ELSE IF isArray(value) THEN TagArrayString
                  ELSE TagString
           [] OTHER -> TagString

inferClickHouseType(value, originalValue) ==
    IF originalValue.kind # "undefined" /\ typeof(originalValue) = "boolean"
    THEN TagUInt8
    ELSE IF instanceofDate(originalValue) THEN TagDateTime
    ELSE IF value.kind = "null" \/ value.kind = "undefined" THEN TagNullableString
    ELSE CASE typeof(value) = "number" ->
                  IF isInteger(value) THEN TagInt32 ELSE TagFloat64
           [] typeof(value) = "bigint" -> TagInt64
           [] typeof(value) = "string" -> TagString
           [] typeof(value) = "boolean" -> TagUInt8
           [] typeof(value) = "object" ->
                  IF instanceofDate(value) THEN TagDateTime
                  ELSE IF isArray(value) THEN TagArrayString
                  ELSE TagString
           [] OTHER -> TagString

\* JSON.stringify on a structure that refers to itself
StringifyThrows == [err |-> "TypeError", ret |-> Undefined]

(***************************************************************************)
(* SQLBuilder.param and params.                                            *)
(***************************************************************************)
\* JSON.stringify of an object: [err, ret]
JSONstringify(value) ==
    IF value.d = 0 THEN StringifyThrows
    ELSE [err |-> "none", ret |-> Str(value.s)]

\* placeholder numbering that starts at 1
placeholderOneBased(counter, tag) ==
    <<"{", "p", "a", "r", "a", "m">> \o natToString(counter + 1) \o <<":">> \o tag \o <<"}">>

\* `{param${counter}:${tag}}`
placeholder(counter, tag) ==
    <<"{", "p", "a", "r", "a", "m">> \o natToString(counter) \o <<":">> \o tag \o <<"}">>

\* Math.floor(value.getTime() / 1000)
epochSeconds(value) == MathFloor(divide(getTime(value), 1000))

\* value ? 1 : 0
One == Num(1)
Zero == Num(0)

\* param() that pushes the value and forgets this.paramCounter++
pushParamNoIncrement(b, paramValue, originalValue) ==
    LET ph == placeholder(b.paramCounter, inferClickHouseType(paramValue, originalValue))
    IN Returns(Builder(b.parts,
                       Append(b.parameters, paramValue),
                       b.paramCounter,
                       Append(b.issued, [value |-> originalValue, ret |-> ph])),
               ph)

\* the tail of param(), from this.parameters.push(paramValue) on
pushParam(b, paramValue, originalValue) ==
    LET ph == placeholder(b.paramCounter, inferClickHouseType(paramValue, originalValue))
    IN Returns(Builder(b.parts,
                       Append(b.parameters, paramValue),
                       b.paramCounter + 1,
                       Append(b.issued, [value |-> originalValue, ret |-> ph])),
               ph)

param(b, value) ==
    IF instanceofDate(value) THEN pushParam(b, epochSeconds(value), value)
    ELSE IF typeof(value) = "boolean"
         THEN pushParam(b, IF value.n = 1 THEN One ELSE Zero, value)
    ELSE IF /\ typeof(value) = "object"
            /\ value.kind # "null"
            /\ ~isArray(value)
            /\ ~instanceofDate(value)
         THEN LET json == JSONstringify(value)
              IN IF json.err # "none" THEN Throws(b, json.err)
                 ELSE pushParam(b, json.ret, value)
    ELSE pushParam(b, value, value)

\* values.map((v) => this.param(v)): ret is the list of placeholders
RECURSIVE params(_, _)
params(b, vals) ==
    IF Len(vals) = 0 THEN Returns(b, <<>>)
    ELSE Bind(param(b, vals[1]),
              LAMBDA b1, ph : Bind(params(b1, Tail(vals)),
              LAMBDA b2, phs : Returns(b2, <<ph>> \o phs)))

(***************************************************************************)
(* Identifiers.                                                            *)
(***************************************************************************)
\* [a-zA-Z_]
NameStartChars == LowerCase \cup UpperCase \cup {"_"}

IsNameStart(c) == c \in NameStartChars

\* [a-zA-Z0-9_]
NameChars == LowerCase \cup UpperCase \cup DigitChars \cup {"_"}

IsNameChar(c) == c \in NameChars

\* a matcher that lets any character of [a-zA-Z0-9_] begin a token
RegexStepDigitStart(q, c) ==
    CASE q = "start" -> IF IsNameChar(c) THEN "token" ELSE "dead"
      [] q = "token" -> IF IsNameChar(c) THEN "token"
                        ELSE IF c = "." THEN "start"
                        ELSE "dead"
      [] OTHER -> "dead"

\* The matcher of /^[a-zA-Z_][a-zA-Z0-9_]*(\.[a-zA-Z_][a-zA-Z0-9_]*)*$/ run over
\* the text from left to right: "start" expects the first character of a
\* token, "token" is inside one, "dead" has failed.
RegexStep(q, c) ==
    CASE q = "start" -> IF IsNameStart(c) THEN "token" ELSE "dead"
      [] q = "token" -> IF IsNameChar(c) THEN "token"
                        ELSE IF c = "." THEN "start"
                        ELSE "dead"
      [] OTHER -> "dead"

RECURSIVE RegexRun(_, _)
RegexRun(q, text) ==
    IF Len(text) = 0 THEN q ELSE RegexRun(RegexStep(q, text[1]), Tail(text))

\* validation that accepts every name that is not empty
validateIdentifierLax(name) == Len(name) > 0

\* validateIdentifier returns (TRUE) or throws SQLInjectionError (FALSE)
validateIdentifier(name) == RegexRun("start", name) = "token"

\* The grave accent U+0060, the quoting delimiter.  A TLA+ string literal cannot
\* hold that character, so it is the one character written as a word.
Backtick == "BACKTICK"

\* quoting of the whole name as one token, the dots inside the backticks
escapeIdentifierWhole(name) ==
    <<Backtick>> \o replaceAll(name, Backtick, <<Backtick, Backtick>>) \o <<Backtick>>

escapeIdentifier(name) ==
    LET segs == split(name, ".")
        quoted == [i \in 1..Len(segs) |->
                      <<Backtick>> \o replaceAll(segs[i], Backtick, <<Backtick, Backtick>>)
                                   \o <<Backtick>>]
    IN arrayJoin(quoted, <<".">>)

\* A name argument: a string, or an SQLIdentifier wrapper holding one in value.
NameString(text) == [type |-> "string", chars |-> text]
SQLIdentifier(text) == [type |-> "SQLIdentifier", value |-> text]

\* throw new SQLInjectionError(`Invalid identifier: ...`)
InvalidIdentifier ==
    [err |-> "SQLInjectionError", ret |-> <<>>, message |-> "Invalid identifier"]

\* [].map(...)
NoneMapped == [err |-> "none", ret |-> <<>>]

\* a name handed on as it came, neither validated nor quoted
identifierUnchecked(name) ==
    [err |-> "none", ret |-> IF name.type = "string" THEN name.chars ELSE name.value]

\* identifier() reads and writes no field of the builder: [err, ret]
identifier(name) ==
    LET value == IF name.type = "string" THEN name.chars ELSE name.value
    IN IF validateIdentifier(value)
       THEN [err |-> "none", ret |-> escapeIdentifier(value)]
       ELSE InvalidIdentifier

\* names.map((n) => this.identifier(n)): the first invalid name throws
RECURSIVE identifiers(_)
identifiers(names) ==
    IF Len(names) = 0 THEN NoneMapped
    ELSE LET id == identifier(NameString(names[1]))
         IN IF id.err # "none" THEN id
            ELSE LET rest == identifiers(Tail(names))
                 IN IF rest.err # "none" THEN rest
                    ELSE [err |-> "none", ret |-> <<id.ret>> \o rest.ret]

\* this.parts.push(this.identifier(name)) followed by the rest of the clause
pushIdentifier(b, name, F(_)) ==
    BindId(b, identifier(NameString(name)), LAMBDA id : F(push(b, id)))

\* this.parts.push(names.map((f) => this.identifier(f)).join(', ')), with text
\* before and after the joined list
pushIdentifierList(b, before, names, after) ==
    BindId(b, identifiers(names),
           LAMBDA ids : Returns(push(b, before \o arrayJoin(ids, <<",", " ">>) \o after), <<>>))

(***************************************************************************)
(* Keywords.                                                               *)
(***************************************************************************)
Star == <<"*">>
kwSELECT == <<"S", "E", "L", "E", "C", "T">>
kwFROM == <<"F", "R", "O", "M">>
kwWHERE == <<"W", "H", "E", "R", "E">>
kwAND == <<"A", "N", "D">>
kwOR == <<"O", "R">>
kwORDERBY == <<"O", "R", "D", "E", "R", " ", "B", "Y">>
kwGROUPBY == <<"G", "R", "O", "U", "P", " ", "B", "Y">>
kwLIMIT == <<"L", "I", "M", "I", "T">>
kwOFFSET == <<"O", "F", "F", "S", "E", "T">>
kwJOIN == <<" ", "J", "O", "I", "N">>
kwINNER == <<"I", "N", "N", "E", "R">>
kwLEFT == <<"L", "E", "F", "T">>
kwRIGHT == <<"R", "I", "G", "H", "T">>
kwFULL == <<"F", "U", "L", "L">>
kwCROSS == <<"C", "R", "O", "S", "S">>
kwAS == <<"A", "S">>
kwON == <<"O", "N">>
kwASC == <<"A", "S", "C">>
kwDESC == <<"D", "E", "S", "C">>
kwINSERTINTO == <<"I", "N", "S", "E", "R", "T", " ", "I", "N", "T", "O">>
kwVALUES == <<"V", "A", "L", "U", "E", "S">>
kwUPDATE == <<"U", "P", "D", "A", "T", "E">>
kwSET == <<"S", "E", "T">>
kwDELETEFROM == <<"D", "E", "L", "E", "T", "E", " ", "F", "R", "O", "M">>

(***************************************************************************)
(* The clause builders of SQLBuilder.                                      *)
(***************************************************************************)
raw(b, sql) == Returns(push(b, sql), <<>>)

\* select() that looks for the wildcard in the first entry alone
selectStarFirst(b, fields) ==
    IF Len(fields) = 0 THEN Throws(b, "SQLInjectionError")
    ELSE LET b1 == push(b, kwSELECT)
         IN IF fields[1] = Star THEN Returns(push(b1, Star), <<>>)
            ELSE pushIdentifierList(b1, <<>>, fields, <<>>)

select(b, fields) ==
    IF Len(fields) = 0 THEN ThrowsMessage(b, "SQLInjectionError", "SELECT fields cannot be empty")
    ELSE LET b1 == push(b, kwSELECT)
         IN IF arrayIncludes(fields, Star) THEN Returns(push(b1, Star), <<>>)
            ELSE pushIdentifierList(b1, <<>>, fields, <<>>)

\* if (alias) { push('AS'); push(this.identifier(alias)) }
pushAlias(b, alias, F(_)) ==
    IF truthy(alias) THEN pushIdentifier(push(b, kwAS), alias.value, F) ELSE F(b)

\* from() that validates the table before it pushes the keyword
fromValidatesFirst(b, table, alias) ==
    BindId(b, identifier(NameString(table)),
           LAMBDA id : pushAlias(push(push(b, kwFROM), id), alias,
                                 LAMBDA b2 : Returns(b2, <<>>)))

from(b, table, alias) ==
    pushIdentifier(push(b, kwFROM), table,
        LAMBDA b1 : pushAlias(b1, alias, LAMBDA b2 : Returns(b2, <<>>)))

\* the keyword and the condition pushed as one part
whereOnePart(b, condition) == Returns(push(b, kwWHERE \o <<" ">> \o condition), <<>>)

where(b, condition) == Returns(push(push(b, kwWHERE), condition), <<>>)

and(b, condition) == Returns(push(push(b, kwAND), condition), <<>>)

or(b, condition) == Returns(push(push(b, kwOR), condition), <<>>)

\* orderBy() that looks for a part that is the keyword, not into the text
orderByOwnKeyword(b, field, direction) ==
    LET dir == IF direction.given THEN direction.value ELSE kwASC
    IN IF arrayIncludes(b.parts, kwORDERBY)
       THEN pushIdentifier(push(b, <<",">>), field,
                LAMBDA b1 : Returns(push(b1, dir), <<>>))
       ELSE pushIdentifier(push(b, kwORDERBY), field,
                LAMBDA b1 : Returns(push(b1, dir), <<>>))

\* direction is absent (the default 'ASC' applies) or given
orderBy(b, field, direction) ==
    LET dir == IF direction.given THEN direction.value ELSE kwASC
    IN IF includes(arrayJoin(b.parts, <<" ">>), kwORDERBY)
       THEN pushIdentifier(push(b, <<",">>), field,
                LAMBDA b1 : Returns(push(b1, dir), <<>>))
       ELSE pushIdentifier(push(b, kwORDERBY), field,
                LAMBDA b1 : Returns(push(b1, dir), <<>>))

groupBy(b, fields) == pushIdentifierList(push(b, kwGROUPBY), <<>>, fields, <<>>)

\* limit() that refuses zero as well
limitRejectsZero(b, count) ==
    IF count <= 0 THEN Throws(b, "SQLInjectionError")
    ELSE Returns(push(push(b, kwLIMIT), intToString(count)), <<>>)

\* limit() that binds the count as a parameter
limitAsParameter(b, count) ==
    IF count < 0 THEN ThrowsMessage(b, "SQLInjectionError", "LIMIT must be non-negative")
    ELSE Bind(param(b, Num(count)),
              LAMBDA b1, ph : Returns(push(push(b1, kwLIMIT), ph), <<>>))

limit(b, count) ==
    IF count < 0 THEN ThrowsMessage(b, "SQLInjectionError", "LIMIT must be non-negative")
    ELSE Returns(push(push(b, kwLIMIT), intToString(count)), <<>>)

offset(b, count) ==
    IF count < 0 THEN ThrowsMessage(b, "SQLInjectionError", "OFFSET must be non-negative")
    ELSE Returns(push(push(b, kwOFFSET), intToString(count)), <<>>)

\* type is the text of one of 'INNER', 'LEFT', 'RIGHT', 'FULL', 'CROSS'
\* join() that emits ON for every kind
joinOnForCross(b, type, table, on, alias) ==
    pushIdentifier(push(b, type \o kwJOIN), table,
        LAMBDA b1 : pushAlias(b1, alias,
            LAMBDA b2 : IF truthy(on)
                        THEN Returns(push(push(b2, kwON), on.value), <<>>)
                        ELSE Returns(b2, <<>>)))

join(b, type, table, on, alias) ==
    pushIdentifier(push(b, type \o kwJOIN), table,
        LAMBDA b1 : pushAlias(b1, alias,
            LAMBDA b2 : IF truthy(on) /\ type # kwCROSS
                        THEN Returns(push(push(b2, kwON), on.value), <<>>)
                        ELSE Returns(b2, <<>>)))

insertInto(b, table, fields) ==
    pushIdentifier(push(b, kwINSERTINTO), table,
        LAMBDA b1 : pushIdentifierList(b1, <<"(">>, fields, <<")">>))

\* row.map((value) => this.param(value)) and `(${placeholders.join(', ')})`
valueSet(b, row) ==
    Bind(params(b, row),
         LAMBDA b1, phs : Returns(b1, <<"(">> \o arrayJoin(phs, <<",", " ">>) \o <<")">>))

\* rows.map(...) that parameterizes the later rows first
RECURSIVE valueSetsLastRowFirst(_, _)
valueSetsLastRowFirst(b, rows) ==
    IF Len(rows) = 0 THEN Returns(b, <<>>)
    ELSE Bind(valueSetsLastRowFirst(b, Tail(rows)),
              LAMBDA b1, rest : Bind(valueSet(b1, rows[1]),
              LAMBDA b2, vs : Returns(b2, <<vs>> \o rest)))

\* rows.map(...): ret is the list of value sets
RECURSIVE valueSets(_, _)
valueSets(b, rows) ==
    IF Len(rows) = 0 THEN Returns(b, <<>>)
    ELSE Bind(valueSet(b, rows[1]),
              LAMBDA b1, vs : Bind(valueSets(b1, Tail(rows)),
              LAMBDA b2, rest : Returns(b2, <<vs>> \o rest)))

\* values() that emits the first value set only
valuesFirstSetOnly(b, rows) ==
    Bind(valueSets(push(b, kwVALUES), rows),
         LAMBDA b1, sets : Returns(push(b1, IF Len(sets) = 0 THEN <<>> ELSE sets[1]), <<>>))

values(b, rows) ==
    Bind(valueSets(push(b, kwVALUES), rows),
         LAMBDA b1, sets : Returns(push(b1, arrayJoin(sets, <<",", " ">>)), <<>>))

update(b, table) ==
    pushIdentifier(push(b, kwUPDATE), table, LAMBDA b1 : Returns(b1, <<>>))

\* `${this.identifier(key)} = ${this.param(value)}` for one entry [key, value]
assignment(b, entry) ==
    BindId(b, identifier(NameString(entry.key)),
           LAMBDA id : Bind(param(b, entry.value),
           LAMBDA b1, ph : Returns(b1, id \o <<" ", "=", " ">> \o ph)))

\* Object.entries(mapping).map(...) that parameterizes the later entries first
RECURSIVE assignmentsLastFirst(_, _)
assignmentsLastFirst(b, entries) ==
    IF Len(entries) = 0 THEN Returns(b, <<>>)
    ELSE Bind(assignmentsLastFirst(b, Tail(entries)),
              LAMBDA b1, rest : Bind(assignment(b1, entries[1]),
              LAMBDA b2, x : Returns(b2, <<x>> \o rest)))

\* Object.entries(mapping).map(...): a mapping is the sequence of its entries
\* in iteration order; ret is the list of assignments
RECURSIVE assignments(_, _)
assignments(b, entries) ==
    IF Len(entries) = 0 THEN Returns(b, <<>>)
    ELSE Bind(assignment(b, entries[1]),
              LAMBDA b1, x : Bind(assignments(b1, Tail(entries)),
              LAMBDA b2, rest : Returns(b2, <<x>> \o rest)))

\* set() that drops the values it added when an entry fails
setDiscardsOnFailure(b, updates) ==
    IF assignments(push(b, kwSET), updates).err # "none"
    THEN Throws(push(b, kwSET), assignments(push(b, kwSET), updates).err)
    ELSE Bind(assignments(push(b, kwSET), updates),
              LAMBDA b1, xs : Returns(push(b1, arrayJoin(xs, <<",", " ">>)), <<>>))

set(b, updates) ==
    Bind(assignments(push(b, kwSET), updates),
         LAMBDA b1, xs : Returns(push(b1, arrayJoin(xs, <<",", " ">>)), <<>>))

deleteFrom(b, table) ==
    pushIdentifier(push(b, kwDELETEFROM), table, LAMBDA b1 : Returns(b1, <<>>))

toSQL(b) == arrayJoin(b.parts, <<" ">>)

\* the copy [...this.parameters]
getParams(b) == b.parameters

\* build() that joins the parts without a separator
buildUnspaced(b) == [sql |-> arrayJoin(b.parts, <<>>), params |-> b.parameters]

\* {sql, params}
build(b) == [sql |-> arrayJoin(b.parts, <<" ">>), params |-> b.parameters]

(***************************************************************************)
(* Arrays are objects.  An array the caller holds is [same, items]: same   *)
(* says that it is the very object this.parameters refers to, and items    *)
(* are its elements.                                                       *)
(***************************************************************************)
\* build() that hands out a copy of the list
paramsOfBuildCopied(b) == [same |-> FALSE, items |-> b.parameters]

\* params: this.parameters
paramsOfBuild(b) == [same |-> TRUE, items |-> b.parameters]

\* getParams() that hands out the list itself
paramsOfGetParamsLive(b) == [same |-> TRUE, items |-> b.parameters]

\* [...this.parameters]
paramsOfGetParams(b) == [same |-> FALSE, items |-> b.parameters]

\* array a after this.parameters = []: the builder refers to a new array
arrayAfterReset(a) == [a EXCEPT !.same = FALSE]

\* array a after a call that left the builder as b1
arrayAfterCall(a, b1) == IF a.same THEN [a EXCEPT !.items = b1.parameters] ELSE a

\* what the caller's push(v), a[0] = v or length = 0 leaves in an array
arrayWritten(items, how, v) ==
    CASE how = "push" -> Append(items, v)
      [] how = "store" -> IF Len(items) = 0 THEN <<v>> ELSE [items EXCEPT ![1] = v]
      [] how = "clear" -> <<>>

\* reset() that forgets this.parameters = []
resetKeepsParameters(b) == Returns(Builder(<<>>, b.parameters, 0, <<>>), <<>>)

\* reset() that forgets this.paramCounter = 0
resetKeepsCounter(b) == Returns(Builder(<<>>, <<>>, b.paramCounter, <<>>), <<>>)

reset(b) == Returns(Builder(<<>>, <<>>, 0, <<>>), <<>>)

(***************************************************************************)
(* The statement factories.  Each works on a builder of its own and        *)
(* returns [err, ret]: ret is {sql, params} (a string for the DDL          *)
(* factories) when err is "none".                                          *)
(***************************************************************************)
Result(r) == IF r.err # "none" THEN [err |-> r.err, ret |-> <<>>, message |-> Message(r)]
             ELSE [err |-> "none", ret |-> build(r.b)]

\* Object.keys(mapping)
keys(entries) == [i \in 1..Len(entries) |-> entries[i].key]

\* record[field] that gives null when the record has no such key
lookupNull(entries, field) ==
    IF \E i \in 1..Len(entries) : entries[i].key = field
    THEN entries[CHOOSE i \in 1..Len(entries) : entries[i].key = field].value
    ELSE Null

\* record[field]: undefined when the record has no such key
lookup(entries, field) ==
    IF \E i \in 1..Len(entries) : entries[i].key = field
    THEN entries[CHOOSE i \in 1..Len(entries) : entries[i].key = field].value
    ELSE Undefined

\* a condition with text in the place of the placeholder, the value not bound
conditionInlined(b, entry) ==
    BindId(b, identifier(NameString(entry.key)),
           LAMBDA id : Returns(b, id \o <<" ", "=", " ", "1">>))

\* `${builder.identifier(key)} = ${builder.param(value)}` for one entry
condition(b, entry) ==
    BindId(b, identifier(NameString(entry.key)),
           LAMBDA id : Bind(param(b, entry.value),
           LAMBDA b1, ph : Returns(b1, id \o <<" ", "=", " ">> \o ph)))

RECURSIVE conditions(_, _)
conditions(b, entries) ==
    IF Len(entries) = 0 THEN Returns(b, <<>>)
    ELSE Bind(condition(b, entries[1]),
              LAMBDA b1, x : Bind(conditions(b1, Tail(entries)),
              LAMBDA b2, rest : Returns(b2, <<x>> \o rest)))

\* the conditions of a filter joined by OR
whereEqualsOr(b, entries) ==
    Bind(conditions(b, entries),
         LAMBDA b1, xs : where(b1, arrayJoin(xs, <<" ", "O", "R", " ">>)))

\* builder.where(conditions.join(' AND ')) over the entries of a filter
whereEquals(b, entries) ==
    Bind(conditions(b, entries),
         LAMBDA b1, xs : where(b1, arrayJoin(xs, <<" ", "A", "N", "D", " ">>)))

\* Object.entries(options.orderBy).forEach(([field, direction]) => ...)
RECURSIVE orderByEach(_, _)
orderByEach(b, entries) ==
    IF Len(entries) = 0 THEN Returns(b, <<>>)
    ELSE Then(orderBy(b, entries[1].key, Given(entries[1].value)),
              LAMBDA b1 : orderByEach(b1, Tail(entries)))

\* buildSelect() that takes an offset of 0 for no offset
buildSelectTruthyOffset(table, options) ==
    Result(
      Then(select(NewBuilder,
                  IF options.fields.given THEN options.fields.value ELSE <<Star>>),
      LAMBDA b1 : Then(from(b1, table, Absent),
      LAMBDA b2 : Then(IF options.where.given /\ Len(keys(options.where.value)) > 0
                       THEN whereEquals(b2, options.where.value)
                       ELSE Returns(b2, <<>>),
      LAMBDA b3 : Then(IF options.orderBy.given
                       THEN orderByEach(b3, options.orderBy.value)
                       ELSE Returns(b3, <<>>),
      LAMBDA b4 : Then(IF options.limit.given
                       THEN limit(b4, options.limit.value)
                       ELSE Returns(b4, <<>>),
      LAMBDA b5 : IF options.offset.given /\ options.offset.value # 0
                  THEN offset(b5, options.offset.value)
                  ELSE Returns(b5, <<>>)))))))

\* options: [fields, where, orderBy, limit, offset], each absent or given
buildSelect(table, options) ==
    Result(
      Then(select(NewBuilder,
                  IF options.fields.given THEN options.fields.value ELSE <<Star>>),
      LAMBDA b1 : Then(from(b1, table, Absent),
      LAMBDA b2 : Then(IF options.where.given /\ Len(keys(options.where.value)) > 0
                       THEN whereEquals(b2, options.where.value)
                       ELSE Returns(b2, <<>>),
      LAMBDA b3 : Then(IF options.orderBy.given
                       THEN orderByEach(b3, options.orderBy.value)
                       ELSE Returns(b3, <<>>),
      LAMBDA b4 : Then(IF options.limit.given
                       THEN limit(b4, options.limit.value)
                       ELSE Returns(b4, <<>>),
      LAMBDA b5 : IF options.offset.given
                  THEN offset(b5, options.offset.value)
                  ELSE Returns(b5, <<>>)))))))

\* throw new SQLInjectionError('INSERT requires at least one record')
NoRecords ==
    [err |-> "SQLInjectionError", ret |-> <<>>,
     message |-> "INSERT requires at least one record"]

\* buildInsert() that validates the table name before it looks at the records
buildInsertTableFirst(table, data) ==
    LET records == data.records
    IN IF identifier(NameString(table)).err # "none" THEN InvalidIdentifier
       ELSE IF Len(records) = 0 THEN NoRecords
       ELSE LET fields == keys(records[1])
                rows == [i \in 1..Len(records) |->
                            [j \in 1..Len(fields) |-> lookup(records[i], fields[j])]]
            IN Result(Then(insertInto(NewBuilder, table, fields),
                           LAMBDA b1 : values(b1, rows)))

\* data: [isArray, records], the records being one mapping when isArray is FALSE
buildInsert(table, data) ==
    LET records == data.records
    IN IF Len(records) = 0 THEN NoRecords
       ELSE LET fields == keys(records[1])
                rows == [i \in 1..Len(records) |->
                            [j \in 1..Len(fields) |-> lookup(records[i], fields[j])]]
            IN Result(Then(insertInto(NewBuilder, table, fields),
                           LAMBDA b1 : values(b1, rows)))

buildUpdate(table, data, whereMap) ==
    Result(
      Then(update(NewBuilder, table),
      LAMBDA b1 : Then(set(b1, data),
      LAMBDA b2 : IF Len(keys(whereMap)) > 0
                  THEN whereEquals(b2, whereMap)
                  ELSE Returns(b2, <<>>))))

buildDelete(table, whereMap) ==
    Result(
      Then(deleteFrom(NewBuilder, table),
      LAMBDA b1 : IF Len(keys(whereMap)) > 0
                  THEN whereEquals(b1, whereMap)
                  ELSE Returns(b1, <<>>)))

kwCREATETABLE == <<"C", "R", "E", "A", "T", "E", " ", "T", "A", "B", "L", "E">>
kwIFNOTEXISTS == <<"I", "F", " ", "N", "O", "T", " ", "E", "X", "I", "S", "T", "S">>
kwENGINE == <<"E", "N", "G", "I", "N", "E", " ", "=", " ">>
kwORDERBYOPEN == <<"O", "R", "D", "E", "R", " ", "B", "Y", " ", "(">>
kwPARTITIONBY == <<"P", "A", "R", "T", "I", "T", "I", "O", "N", " ", "B", "Y", " ">>
kwPRIMARYKEYOPEN == <<"P", "R", "I", "M", "A", "R", "Y", " ", "K", "E", "Y", " ", "(">>
kwDROPTABLE == <<"D", "R", "O", "P", " ", "T", "A", "B", "L", "E">>
kwIFEXISTS == <<"I", "F", " ", "E", "X", "I", "S", "T", "S">>

\* the local parts array of a DDL factory: [err, parts]
DDL(ps) == [err |-> "none", parts |-> ps]

DDLThen(r, F(_)) == IF r.err # "none" THEN r ELSE F(r.parts)

\* the names joined as given, neither validated nor quoted
DDLPushListAsGiven(ps, before, names, after) ==
    DDL(Append(ps, before \o arrayJoin(names, <<",", " ">>) \o after))

\* parts.push(before + names.map((f) => builder.identifier(f)).join(', ') + after)
DDLPushList(ps, before, names, after) ==
    LET ids == identifiers(names)
    IN IF ids.err # "none" THEN [err |-> ids.err, parts |-> ps, message |-> Message(ids)]
       ELSE DDL(Append(ps, before \o arrayJoin(ids.ret, <<",", " ">>) \o after))

\* Object.entries(columns).map(([name, type]) => `${builder.identifier(name)} ${type}`)
RECURSIVE columnDefs(_)
columnDefs(columns) ==
    IF Len(columns) = 0 THEN NoneMapped
    ELSE LET id == identifier(NameString(columns[1].key))
         IN IF id.err # "none" THEN id
            ELSE LET rest == columnDefs(Tail(columns))
                 IN IF rest.err # "none" THEN rest
                    ELSE [err |-> "none",
                          ret |-> <<id.ret \o <<" ">> \o columns[1].value>> \o rest.ret]

\* options: absent, or given as [engine, orderBy, partitionBy, primaryKey,
\* ifNotExists], the first four each absent or given
buildCreateTable(table, columns, options) ==
    LET opt(field) == IF options.given THEN options.value[field] ELSE Absent
        p0 == <<kwCREATETABLE>>
        p1 == IF options.given /\ options.value.ifNotExists
              THEN Append(p0, kwIFNOTEXISTS) ELSE p0
        tbl == identifier(NameString(table))
        cols == columnDefs(columns)
        r == IF tbl.err # "none" THEN [err |-> tbl.err, parts |-> p1, message |-> Message(tbl)]
             ELSE IF cols.err # "none"
             THEN [err |-> cols.err, parts |-> Append(p1, tbl.ret), message |-> Message(cols)]
             ELSE
               DDLThen(DDL(Append(Append(p1, tbl.ret),
                                  <<"(">> \o arrayJoin(cols.ret, <<",", " ">>) \o <<")">>)),
               LAMBDA p3 : DDLThen(DDL(IF truthy(opt("engine"))
                                       THEN Append(p3, kwENGINE \o opt("engine").value)
                                       ELSE p3),
               LAMBDA p4 : DDLThen(IF opt("orderBy").given /\ Len(opt("orderBy").value) > 0
                                   THEN DDLPushList(p4, kwORDERBYOPEN,
                                                    opt("orderBy").value, <<")">>)
                                   ELSE DDL(p4),
               LAMBDA p5 : DDLThen(DDL(IF truthy(opt("partitionBy"))
                                       THEN Append(p5, kwPARTITIONBY \o opt("partitionBy").value)
                                       ELSE p5),
               LAMBDA p6 : IF opt("primaryKey").given /\ Len(opt("primaryKey").value) > 0
                           THEN DDLPushList(p6, kwPRIMARYKEYOPEN,
                                            opt("primaryKey").value, <<")">>)
                           ELSE DDL(p6)))))
    IN IF r.err # "none" THEN [err |-> r.err, ret |-> <<>>, message |-> Message(r)]
       ELSE [err |-> "none", ret |-> arrayJoin(r.parts, <<" ">>)]

buildDropTable(table, ifExists) ==
    LET p0 == <<kwDROPTABLE>>
        p1 == IF ifExists THEN Append(p0, kwIFEXISTS) ELSE p0
        tbl == identifier(NameString(table))
    IN IF tbl.err # "none" THEN [err |-> tbl.err, ret |-> <<>>, message |-> Message(tbl)]
       ELSE [err |-> "none", ret |-> arrayJoin(Append(p1, tbl.ret), <<" ">>)]

(***************************************************************************)
(* Inputs of the calls made on the builder.                                *)
(***************************************************************************)
NameX == <<"x">>
NameQualified == <<"q", ".", "z">>
NameBad == <<"x", ";">>
NameDigit == <<"1", "x">>

Names == {NameX, NameQualified, NameBad}

FieldLists == {<<>>, <<NameX, NameQualified>>, <<NameBad, Star>>, <<NameX, NameBad>>}

Values == {Num(1), Bool(TRUE), Circular}

ValueLists == {<<Num(1), Bool(TRUE)>>, <<Num(1), Circular>>}

TextOne == <<"1">>
TextOrder == <<"O", "R", "D", "E", "R", " ", "B", "Y", " ", "1">>

Texts == {TextOne, TextOrder}

Counts == {-1, 0, 10}

FromArgs ==
    {<<NameX, Absent>>, <<NameQualified, Given(NameX)>>, <<NameX, Given(<<>>)>>,
     <<NameX, Given(NameBad)>>, <<NameBad, Absent>>}

OrderByArgs ==
    {<<NameX, Absent>>, <<NameQualified, Given(kwDESC)>>, <<NameBad, Given(kwASC)>>}

JoinArgs ==
    {<<kwINNER, NameX, Given(TextOne), Absent>>,
     <<kwLEFT, NameQualified, Absent, Given(NameX)>>,
     <<kwRIGHT, NameX, Given(<<>>), Given(NameBad)>>,
     <<kwFULL, NameBad, Given(TextOne), Absent>>,
     <<kwCROSS, NameX, Given(TextOne), Given(NameX)>>}

InsertIntoArgs ==
    {<<NameX, <<NameX, NameQualified>>>>, <<NameX, <<NameX, NameBad>>>>,
     <<NameBad, <<NameX>>>>, <<NameQualified, <<>>>>}

Entry(k, v) == [key |-> k, value |-> v]

\* mappings from names to values, as their entries in iteration order
MapTwo == <<Entry(NameX, Bool(TRUE)), Entry(NameQualified, DateMs(-1500))>>
MapBadSecond == <<Entry(NameX, Num(1)), Entry(NameBad, Num(1))>>
MapCircular == <<Entry(NameX, Num(1)), Entry(NameQualified, Circular)>>

Mappings == {<<>>, MapTwo, MapBadSecond, MapCircular}

Rows ==
    {<<>>,
     <<<<Num(1), Bool(TRUE)>>, <<DateMs(-1500)>>>>,
     <<<<Num(1)>>, <<Circular>>>>}

(***************************************************************************)
(* Inputs of the statement factories.                                      *)
(***************************************************************************)
SelectOptions(fields, whereMap, order, lim, off) ==
    [fields |-> fields, where |-> whereMap, orderBy |-> order, limit |-> lim, offset |-> off]

OrderTwo == <<Entry(NameX, kwASC), Entry(NameQualified, kwDESC)>>
OrderBad == <<Entry(NameX, kwASC), Entry(NameDigit, kwDESC)>>

BuildSelectArgs ==
    {<<NameX, SelectOptions(Absent, Absent, Absent, Absent, Absent)>>,
     <<NameQualified, SelectOptions(Given(<<NameX, NameQualified>>), Given(MapTwo),
                                    Given(OrderTwo), Given(10), Given(0))>>,
     <<NameX, SelectOptions(Given(<<>>), Given(<<>>), Absent, Absent, Absent)>>,
     <<NameX, SelectOptions(Absent, Absent, Given(<<>>), Given(0), Absent)>>,
     <<NameX, SelectOptions(Given(<<NameX, NameDigit>>), Absent, Absent, Absent, Absent)>>,
     <<NameX, SelectOptions(Absent, Given(MapBadSecond), Absent, Absent, Absent)>>,
     <<NameX, SelectOptions(Absent, Absent, Given(OrderBad), Given(-1), Absent)>>,
     <<NameBad, SelectOptions(Absent, Given(MapTwo), Absent, Absent, Given(-1))>>}

\* a later record with a key the first lacks, and lacking a key of the first
RecordOther == <<Entry(NameBad, Num(1)), Entry(NameX, Str(<<"s">>))>>

BuildInsertArgs ==
    {<<NameX, [isArray |-> FALSE, records |-> <<MapTwo>>]>>,
     <<NameX, [isArray |-> TRUE, records |-> <<MapTwo, RecordOther>>]>>,
     <<NameBad, [isArray |-> TRUE, records |-> <<>>]>>,
     <<NameX, [isArray |-> TRUE, records |-> <<>>]>>,
     <<NameX, [isArray |-> TRUE, records |-> <<MapBadSecond>>]>>,
     <<NameDigit, [isArray |-> FALSE, records |-> <<MapTwo>>]>>,
     <<NameX, [isArray |-> FALSE, records |-> <<<<>>>>]>>}

BuildUpdateArgs ==
    {<<NameX, MapTwo, <<Entry(NameQualified, Num(1))>>>>,
     <<NameX, MapTwo, <<>>>>,
     <<NameX, <<>>, MapTwo>>,
     <<NameX, MapBadSecond, MapTwo>>,
     <<NameX, MapTwo, MapBadSecond>>,
     <<NameBad, MapTwo, MapTwo>>}

BuildDeleteArgs ==
    {<<NameX, MapTwo>>, <<NameQualified, <<>>>>, <<NameX, MapBadSecond>>, <<NameBad, MapTwo>>}

TypeText == <<"U", "I", "n", "t", "8">>
EngineText == <<"M", "e", "r", "g", "e", "T", "r", "e", "e", "(", ")">>
PartitionText == <<"t", "o", "Y", "Y", "Y", "Y", "M", "M", "(", "d", ")">>

Columns == <<Entry(NameX, TypeText), Entry(NameQualified, TypeText)>>
ColumnsBad == <<Entry(NameX, TypeText), Entry(NameBad, TypeText)>>

TableOptions(engine, order, partition, primary, guard) ==
    [engine |-> engine, orderBy |-> order, partitionBy |-> partition,
     primaryKey |-> primary, ifNotExists |-> guard]

BuildCreateTableArgs ==
    {<<NameX, Columns, Absent>>,
     <<NameQualified, Columns,
       Given(TableOptions(Given(EngineText), Given(<<NameX, NameQualified>>),
                          Given(PartitionText), Given(<<NameX>>), TRUE))>>,
     <<NameX, Columns,
       Given(TableOptions(Absent, Given(<<>>), Given(<<>>), Given(<<NameX, NameDigit>>), FALSE))>>,
     <<NameX, Columns,
       Given(TableOptions(Given(<<>>), Given(<<NameBad>>), Absent, Absent, FALSE))>>,
     <<NameX, ColumnsBad, Absent>>,
     <<NameBad, Columns, Absent>>}

BuildDropTableArgs == {<<NameX, FALSE>>, <<NameQualified, TRUE>>, <<NameBad, TRUE>>}

(***************************************************************************)
(* The state machine: one SQLBuilder (parts, parameters, paramCounter),    *)
(* its log of param() invocations (issued), the last call made, with its   *)
(* arguments, the error it threw and the value it returned (last), and     *)
(* the argument the specifications of one operation draw at the start      *)
(* (input).                                                                *)
(***************************************************************************)
Self == Builder(parts, parameters, paramCounter, issued)

\* peer is a second SQLBuilder object, b, with three logs that no operation
\* reads: the calls made on this object and on the peer since they were
\* created, and the factory calls made, each with its outcome
NoPeer == [b |-> NewBuilder, mine |-> <<>>, theirs |-> <<>>, seen |-> {}]

\* the caller holds no array
NoArray == [from |-> "none", same |-> FALSE, items |-> <<>>, kept |-> <<>>, stale |-> FALSE]

New ==
    /\ parts = NewBuilder.parts
    /\ parameters = NewBuilder.parameters
    /\ paramCounter = NewBuilder.paramCounter
    /\ issued = NewBuilder.issued
    /\ ordered = <<>>
    /\ held = NoArray
    /\ peer = NoPeer
    /\ last = [op |-> "new", args |-> <<>>, err |-> "none", ret |-> <<>>, message |-> <<>>]

Init == New /\ input = <<>>

\* the calls that append are made while the builder is below the bounds
Room == Len(parts) < MaxParts /\ Len(parameters) < MaxParams

\* ordered is a log that no operation reads: the arguments of the orderBy()
\* calls that returned since construction or the last reset(), in call order
Ordered(op, args, r) ==
    IF op = "reset" THEN <<>>
    ELSE IF op = "orderBy" /\ r.err = "none" THEN Append(ordered, args)
    ELSE ordered

\* a call on the builder with outcome r
\* held is the array the caller kept from build() or getParams(): same and
\* items as above, and three logs that no operation reads: the call that
\* returned it, its items when it was returned, and whether reset() has run
\* since
Held(op, r) ==
    IF op = "reset"
    THEN [arrayAfterReset(held) EXCEPT !.stale = (held.from # "none")]
    ELSE arrayAfterCall(held, r.b)

Kept(call, a) ==
    [from |-> call, same |-> a.same, items |-> a.items, kept |-> a.items, stale |-> FALSE]

Call(op, args, r) ==
    /\ parts' = r.b.parts
    /\ parameters' = r.b.parameters
    /\ paramCounter' = r.b.paramCounter
    /\ issued' = r.b.issued
    /\ ordered' = Ordered(op, args, r)
    /\ held' = Held(op, r)
    /\ last' = [op |-> op, args |-> args, err |-> r.err, ret |-> r.ret, message |-> Message(r)]
    /\ UNCHANGED <<peer, input>>

\* a call that leaves the builder alone, with outcome [err, ret]
Pure(op, args, r) ==
    /\ last' = [op |-> op, args |-> args, err |-> r.err, ret |-> r.ret, message |-> Message(r)]
    /\ UNCHANGED <<parts, parameters, paramCounter, issued, ordered, held, peer, input>>

Raw(sql) == Room /\ Call("raw", [sql |-> sql], raw(Self, sql))

Param(value) == Room /\ Call("param", [value |-> value], param(Self, value))

Params(vs) == Room /\ Call("params", [values |-> vs], params(Self, vs))

Identifier(name) ==
    /\ Pure("identifier", [name |-> name], identifier(name))

Identifiers(names) ==
    /\ Pure("identifiers", [names |-> names], identifiers(names))

Select(fields) == Room /\ Call("select", [fields |-> fields], select(Self, fields))

From(table, alias) ==
    Room /\ Call("from", [table |-> table, alias |-> alias], from(Self, table, alias))

Where(cond) == Room /\ Call("where", [condition |-> cond], where(Self, cond))

And(cond) == Room /\ Call("and", [condition |-> cond], and(Self, cond))

Or(cond) == Room /\ Call("or", [condition |-> cond], or(Self, cond))

OrderBy(field, direction) ==
    Room /\ Call("orderBy", [field |-> field, direction |-> direction],
                 orderBy(Self, field, direction))

GroupBy(fields) == Room /\ Call("groupBy", [fields |-> fields], groupBy(Self, fields))

Limit(count) == Room /\ Call("limit", [count |-> count], limit(Self, count))

Offset(count) == Room /\ Call("offset", [count |-> count], offset(Self, count))

Join(type, table, on, alias) ==
    Room /\ Call("join", [type |-> type, table |-> table, on |-> on, alias |-> alias],
                 join(Self, type, table, on, alias))

InsertInto(table, fields) ==
    Room /\ Call("insertInto", [table |-> table, fields |-> fields],
                 insertInto(Self, table, fields))

ValuesCall(rows) == Room /\ Call("values", [rows |-> rows], values(Self, rows))

Update(table) == Room /\ Call("update", [table |-> table], update(Self, table))

Set(updates) == Room /\ Call("set", [updates |-> updates], set(Self, updates))

DeleteFrom(table) == Room /\ Call("deleteFrom", [table |-> table], deleteFrom(Self, table))

Build ==
    /\ Pure("build", <<>>, [err |-> "none", ret |-> build(Self)])

ToSQL ==
    /\ Pure("toSQL", <<>>, [err |-> "none", ret |-> toSQL(Self)])

GetParams ==
    /\ Pure("getParams", <<>>, [err |-> "none", ret |-> getParams(Self)])

\* the call records the builder it was made on, which it discards
Reset ==
    /\ Call("reset",
            [this |-> [parts |-> parts, parameters |-> parameters, paramCounter |-> paramCounter]],
            reset(Self))

BuildSelect(table, options) ==
    /\ Pure("buildSelect", [table |-> table, options |-> options], buildSelect(table, options))

BuildInsert(table, data) ==
    /\ Pure("buildInsert", [table |-> table, data |-> data], buildInsert(table, data))

BuildUpdate(table, data, whereMap) ==
    /\ Pure("buildUpdate", [table |-> table, data |-> data, where |-> whereMap],
            buildUpdate(table, data, whereMap))

BuildDelete(table, whereMap) ==
    /\ Pure("buildDelete", [table |-> table, where |-> whereMap], buildDelete(table, whereMap))

BuildCreateTable(table, columns, options) ==
    /\ Pure("buildCreateTable", [table |-> table, columns |-> columns, options |-> options],
            buildCreateTable(table, columns, options))

BuildDropTable(table, ifExists) ==
    /\ Pure("buildDropTable", [table |-> table, ifExists |-> ifExists],
            buildDropTable(table, ifExists))

\* the names as identifier() takes them: a string or an SQLIdentifier object
NameArgs == {NameString(n) : n \in Names} \cup {SQLIdentifier(n) : n \in Names}

Next ==
    \/ \E sql \in Texts : Raw(sql)
    \/ \E v \in Values : Param(v)
    \/ \E vs \in ValueLists : Params(vs)
    \/ \E name \in NameArgs : Identifier(name)
    \/ \E fs \in FieldLists : Identifiers(fs)
    \/ \E fs \in FieldLists : Select(fs)
    \/ \E a \in FromArgs : From(a[1], a[2])
    \/ \E c \in Texts : Where(c)
    \/ \E c \in Texts : And(c)
    \/ \E c \in Texts : Or(c)
    \/ \E a \in OrderByArgs : OrderBy(a[1], a[2])
    \/ \E fs \in FieldLists : GroupBy(fs)
    \/ \E c \in Counts : Limit(c)
    \/ \E c \in Counts : Offset(c)
    \/ \E a \in JoinArgs : Join(a[1], a[2], a[3], a[4])
    \/ \E a \in InsertIntoArgs : InsertInto(a[1], a[2])
    \/ \E rows \in Rows : ValuesCall(rows)
    \/ \E t \in Names : Update(t)
    \/ \E m \in Mappings : Set(m)
    \/ \E t \in Names : DeleteFrom(t)
    \/ Build
    \/ ToSQL
    \/ GetParams
    \/ Reset

Spec == Init /\ [][Next]_vars

(***************************************************************************)
(* The calls that take table, column or alias names: the clause builders   *)
(* on one builder, and the statement factories.                            *)
(***************************************************************************)
NextNames ==
    \/ \E fs \in FieldLists : Select(fs)
    \/ \E a \in FromArgs : From(a[1], a[2])
    \/ \E a \in OrderByArgs : OrderBy(a[1], a[2])
    \/ \E fs \in FieldLists : GroupBy(fs)
    \/ \E a \in JoinArgs : Join(a[1], a[2], a[3], a[4])
    \/ \E a \in InsertIntoArgs : InsertInto(a[1], a[2])
    \/ \E t \in Names : Update(t)
    \/ \E m \in Mappings : Set(m)
    \/ \E t \in Names : DeleteFrom(t)
    \/ Reset
    \/ \E a \in BuildSelectArgs : BuildSelect(a[1], a[2])
    \/ \E a \in BuildInsertArgs : BuildInsert(a[1], a[2])
    \/ \E a \in BuildUpdateArgs : BuildUpdate(a[1], a[2], a[3])
    \/ \E a \in BuildDeleteArgs : BuildDelete(a[1], a[2])
    \/ \E a \in BuildCreateTableArgs : BuildCreateTable(a[1], a[2], a[3])
    \/ \E a \in BuildDropTableArgs : BuildDropTable(a[1], a[2])

SpecNames == Init /\ [][NextNames]_vars

(***************************************************************************)
(* identifier() on every short name.  The name is fixed when the builder   *)
(* is created; the builder is filled by raw() and param() around the call. *)
(***************************************************************************)
\* a letter of each case, the underscore, a digit, the dot, and two of the
\* characters the pattern has no class for
NameAlphabet == {"a", "Z", "_", "1", ".", Backtick, ";"}

\* names of the unit tests, and a name of three tokens
ExtraNames ==
    {<<"u", "s", "e", "r", "-", "n", "a", "m", "e">>,
     <<"u", "s", "e", "r", " ", "n", "a", "m", "e">>,
     <<"u", "s", "e", "r", "s", "'", " ", "O", "R">>,
     <<"u", "s", "e", "r", "1", "2", "3">>,
     <<"d", "b", ".", "u", "s", "e", "r", "s">>,
     <<"a", ".", "Z", "9", ".", "_">>,
     <<"x", "\n">>}

NameInputs == UNION {[1..n -> NameAlphabet] : n \in 0..MaxNameLen} \cup ExtraNames

InitIdent == New /\ input \in NameInputs

NextIdent ==
    \/ Raw(TextOne)
    \/ Param(One)
    \/ Identifier(NameString(input))
    \/ Identifier(SQLIdentifier(input))

SpecIdent == InitIdent /\ [][NextIdent]_vars

(***************************************************************************)
(* param() on one value of every kind.  The value is fixed when the        *)
(* builder is created.                                                     *)
(***************************************************************************)
\* Date values on both sides of the epoch and of a whole second
DateInputs ==
    {DateMs(-1500), DateMs(-1000), DateMs(-1), DateMs(0), DateMs(999), DateMs(1000),
     DateMs(1500), InvalidDate}

NumberInputs ==
    {Num(0), Num(1), Num(-7), Num(2147483647), Ratio(1, 2), Ratio(-3, 2), NaN, Infinity}

ParamInputs ==
    DateInputs \cup NumberInputs \cup
    {Bool(TRUE), Bool(FALSE), Obj(<<"{", "}">>), Circular, Null, Undefined,
     BigInt(5), Str(<<>>), Str(<<"s">>), Arr(<<>>), Arr(<<"s">>), Func}

InitParam == New /\ input \in ParamInputs

NextParam ==
    \/ Param(input)
    \/ Raw(TextOne)
    \/ Reset

SpecParam == InitParam /\ [][NextParam]_vars

(***************************************************************************)
(* param() on integers of every magnitude and on some numbers that are no  *)
(* integers.  The value is fixed when the builder is created.              *)
(***************************************************************************)
WideInputs ==
    {Pow2(1, 31), Pow2(-1, 31), Pow2(3, 30), Pow2(-3, 30), Pow2(1, 32), Pow2(-1, 32),
     Pow2(1, 53), Pow2(-1, 53), Pow2(2147483647, 1), Pow2(1, 62)}

IntegerInputs ==
    {Num(k) : k \in (-MaxCount)..MaxCount}
    \cup {Num(2147483647), Num(-2147483647), Num(65536), Num(-65536)}
    \cup WideInputs
    \cup {Ratio(1, 2), Ratio(-3, 2), Ratio(2147483647, 2), NaN, Infinity, BigInt(5)}

InitTag == New /\ input \in IntegerInputs

NextTag ==
    \/ Param(input)
    \/ Raw(TextOne)
    \/ Reset

SpecTag == InitTag /\ [][NextTag]_vars

(***************************************************************************)
(* select() on every short field list.  The list is fixed when the builder *)
(* is created.                                                             *)
(***************************************************************************)
FieldInputs == {NameX, NameQualified, NameBad, NameDigit, Star}

FieldListInputs == UNION {[1..n -> FieldInputs] : n \in 0..MaxFields}

InitSelect == New /\ input \in FieldListInputs

NextSelect ==
    \/ Select(input)
    \/ Raw(TextOne)
    \/ Param(One)
    \/ Reset

SpecSelect == InitSelect /\ [][NextSelect]_vars

(***************************************************************************)
(* orderBy() called repeatedly on one builder, between other clauses,      *)
(* failed calls and reset().                                               *)
(***************************************************************************)
RoomOrder == Len(parts) < MaxOrderParts

OrderByMore(field, direction) ==
    RoomOrder /\ Call("orderBy", [field |-> field, direction |-> direction],
                      orderBy(Self, field, direction))

RawMore(sql) == RoomOrder /\ Call("raw", [sql |-> sql], raw(Self, sql))

FromMore(table) ==
    RoomOrder /\ Call("from", [table |-> table, alias |-> Absent], from(Self, table, Absent))

NextOrder ==
    \/ \E a \in OrderByArgs : OrderByMore(a[1], a[2])
    \/ \E sql \in Texts : RawMore(sql)
    \/ FromMore(NameX)
    \/ Reset

SpecOrder == Init /\ [][NextOrder]_vars

(***************************************************************************)
(* orderBy() after caller's text that holds the words ORDER BY, in one     *)
(* part or across two, given to raw(), where(), and(), or() or as the ON   *)
(* condition of a join.                                                    *)
(***************************************************************************)
TextOrderOnly == <<"O", "R", "D", "E", "R">>
TextBy == <<"B", "Y">>
ScanTexts == {TextOne, TextOrder, TextOrderOnly, TextBy}
OnOrder == Given(TextOrder)

WhereMore(cond) == RoomOrder /\ Call("where", [condition |-> cond], where(Self, cond))

AndMore(cond) == RoomOrder /\ Call("and", [condition |-> cond], and(Self, cond))

OrMore(cond) == RoomOrder /\ Call("or", [condition |-> cond], or(Self, cond))

JoinMore(type, table, on, alias) ==
    RoomOrder /\ Call("join", [type |-> type, table |-> table, on |-> on, alias |-> alias],
                      join(Self, type, table, on, alias))

NextScan ==
    \/ \E a \in OrderByArgs : OrderByMore(a[1], a[2])
    \/ \E sql \in ScanTexts : RawMore(sql)
    \/ WhereMore(TextOrder)
    \/ AndMore(TextOrder)
    \/ OrMore(TextOrder)
    \/ JoinMore(kwINNER, NameX, OnOrder, Absent)
    \/ Reset

SpecScan == Init /\ [][NextScan]_vars

(***************************************************************************)
(* Clause-builder calls that all return, with no param() or params() call  *)
(* by the caller: placeholders come from values() and set() only.          *)
(***************************************************************************)
RoomClean == Len(parts) < MaxOrderParts /\ Len(parameters) < MaxParams

CleanValues(rows) ==
    /\ RoomClean
    /\ values(Self, rows).err = "none"
    /\ Call("values", [rows |-> rows], values(Self, rows))

CleanSet(updates) ==
    /\ RoomClean
    /\ set(Self, updates).err = "none"
    /\ Call("set", [updates |-> updates], set(Self, updates))

CleanOrderBy(field, direction) ==
    /\ RoomClean
    /\ orderBy(Self, field, direction).err = "none"
    /\ Call("orderBy", [field |-> field, direction |-> direction],
            orderBy(Self, field, direction))

CleanLimit(count) ==
    /\ RoomClean
    /\ limit(Self, count).err = "none"
    /\ Call("limit", [count |-> count], limit(Self, count))

NextClean ==
    \/ \E rows \in Rows : CleanValues(rows)
    \/ \E m \in Mappings : CleanSet(m)
    \/ \E a \in OrderByArgs : CleanOrderBy(a[1], a[2])
    \/ \E c \in Counts : CleanLimit(c)
    \/ \E sql \in Texts : RawMore(sql)
    \/ Reset

SpecClean == Init /\ [][NextClean]_vars

(***************************************************************************)
(* limit() and offset() on every small count and on some large ones.  The  *)
(* count is fixed when the builder is created.                             *)
(***************************************************************************)
CountInputs == (-MaxCount)..MaxCount \cup {-2147483647, -100, 100, 1000, 2147483647}

InitCount == New /\ input \in CountInputs

NextCount ==
    \/ Limit(input)
    \/ Offset(input)
    \/ Raw(TextOne)
    \/ Param(One)
    \/ Reset

SpecCount == InitCount /\ [][NextCount]_vars

(***************************************************************************)
(* limit() and offset() on a builder that holds parameters, and            *)
(* buildSelect with and without a limit and an offset.                     *)
(***************************************************************************)
NextLiteral ==
    \/ Limit(input)
    \/ Offset(input)
    \/ Raw(TextOne)
    \/ Param(One)
    \/ Reset
    \/ \E a \in BuildSelectArgs : BuildSelect(a[1], a[2])

SpecLiteral == InitCount /\ [][NextLiteral]_vars

(***************************************************************************)
(* join() on every combination of kind, table, on text and alias.  The     *)
(* arguments are fixed when the builder is created.                        *)
(***************************************************************************)
JoinKinds == {kwINNER, kwLEFT, kwRIGHT, kwFULL, kwCROSS}
OnInputs == {Absent, Given(<<>>), Given(TextOne)}
AliasInputs == {Absent, Given(<<>>), Given(NameX), Given(NameBad)}
JoinInputs == JoinKinds \X Names \X OnInputs \X AliasInputs

InitJoin == New /\ input \in JoinInputs

NextJoin ==
    \/ Join(input[1], input[2], input[3], input[4])
    \/ Raw(TextOne)
    \/ Reset

SpecJoin == InitJoin /\ [][NextJoin]_vars

(***************************************************************************)
(* A caller that keeps the array build() or getParams() returned and       *)
(* writes to it while the builder is used further.                         *)
(***************************************************************************)
KeepBuild ==
    /\ last' = [op |-> "build", args |-> <<>>, err |-> "none", ret |-> build(Self),
                 message |-> <<>>]
    /\ held' = Kept("build", paramsOfBuild(Self))
    /\ UNCHANGED <<parts, parameters, paramCounter, issued, ordered, peer, input>>

KeepGetParams ==
    /\ last' = [op |-> "getParams", args |-> <<>>, err |-> "none",
                 ret |-> getParams(Self), message |-> <<>>]
    /\ held' = Kept("getParams", paramsOfGetParams(Self))
    /\ UNCHANGED <<parts, parameters, paramCounter, issued, ordered, peer, input>>

Writes == {"push", "store", "clear"}

\* the caller writes to the array it holds
WriteHeld(how, v) ==
    /\ held.from # "none"
    /\ Len(held.items) <= MaxParams
    /\ held' = [held EXCEPT !.items = arrayWritten(held.items, how, v)]
    /\ parameters' = IF held.same THEN arrayWritten(held.items, how, v) ELSE parameters
    /\ last' = [op |-> "write", args |-> [how |-> how, value |-> v], err |-> "none",
                 ret |-> <<>>, message |-> <<>>]
    /\ UNCHANGED <<parts, paramCounter, issued, ordered, peer, input>>

\* param() while the counter, which the caller's writes do not lower, is below
\* the bound
ParamCounted(value) == paramCounter < MaxParams /\ Param(value)

NextAlias ==
    \/ KeepBuild
    \/ KeepGetParams
    \/ \E how \in Writes : WriteHeld(how, Zero)
    \/ ParamCounted(One)
    \/ Reset

SpecAlias == Init /\ [][NextAlias]_vars

(***************************************************************************)
(* Two callers, each with its own SQLBuilder object, their calls           *)
(* interleaved in every order, and calls of the statement factories in     *)
(* between.                                                                *)
(***************************************************************************)
CallSet == [op |-> "set", arg |-> MapTwo]
CallRaw == [op |-> "raw", arg |-> TextOne]
CallOrderBy == [op |-> "orderBy", arg |-> NameX]
CallReset == [op |-> "reset", arg |-> <<>>]
Calls == {CallSet, CallRaw, CallOrderBy, CallReset}

FactoryCalls ==
    {[op |-> "buildDelete", args |-> [table |-> NameX, where |-> MapTwo]],
     [op |-> "buildInsert",
      args |-> [table |-> NameX, data |-> [isArray |-> FALSE, records |-> <<MapTwo>>]]]}

\* the fields of object 1 are those of a peer whose counter is the one of
\* object 2: a counter shared by the class
instanceSharedCounter(id) ==
    IF id = 1 THEN Self ELSE [peer.b EXCEPT !.paramCounter = paramCounter]

\* private parts, parameters, paramCounter: the fields of object id
instance(id) == IF id = 1 THEN Self ELSE peer.b

\* one call on builder b
Apply(b, call) ==
    CASE call.op = "set" -> set(b, call.arg)
      [] call.op = "raw" -> raw(b, call.arg)
      [] call.op = "orderBy" -> orderBy(b, call.arg, Absent)
      [] call.op = "reset" -> reset(b)

FactoryOutcome(f) ==
    CASE f.op = "buildDelete" -> buildDelete(f.args.table, f.args.where)
      [] f.op = "buildInsert" -> buildInsert(f.args.table, f.args.data)

OnThis(call) ==
    /\ Len(peer.mine) < MaxCalls
    /\ parts' = Apply(instance(1), call).b.parts
    /\ parameters' = Apply(instance(1), call).b.parameters
    /\ paramCounter' = Apply(instance(1), call).b.paramCounter
    /\ issued' = Apply(instance(1), call).b.issued
    /\ ordered' = Ordered(call.op, call, Apply(instance(1), call))
    /\ held' = Held(call.op, Apply(instance(1), call))
    /\ peer' = [peer EXCEPT !.mine = Append(@, call)]
    /\ last' = [op |-> call.op, args |-> call, err |-> Apply(instance(1), call).err,
                ret |-> Apply(instance(1), call).ret,
                message |-> Message(Apply(instance(1), call))]
    /\ UNCHANGED input

OnPeer(call) ==
    /\ Len(peer.theirs) < MaxCalls
    /\ peer' = [peer EXCEPT !.b = Apply(instance(2), call).b, !.theirs = Append(@, call)]
    /\ last' = [op |-> "peer", args |-> call, err |-> Apply(instance(2), call).err,
                ret |-> Apply(instance(2), call).ret,
                message |-> Message(Apply(instance(2), call))]
    /\ UNCHANGED <<parts, parameters, paramCounter, issued, ordered, held, input>>

CallFactory(f) ==
    /\ peer' = [peer EXCEPT !.seen = @ \cup {[op |-> f.op, args |-> f.args,
                                              err |-> FactoryOutcome(f).err,
                                              ret |-> FactoryOutcome(f).ret]}]
    /\ last' = [op |-> f.op, args |-> f.args, err |-> FactoryOutcome(f).err,
                ret |-> FactoryOutcome(f).ret, message |-> Message(FactoryOutcome(f))]
    /\ UNCHANGED <<parts, parameters, paramCounter, issued, ordered, held, input>>

NextTwo ==
    \/ \E call \in Calls : OnThis(call)
    \/ \E call \in Calls : OnPeer(call)
    \/ \E f \in FactoryCalls : CallFactory(f)

SpecTwo == Init /\ [][NextTwo]_vars


(***************************************************************************)
TagSet ==
    {TagInt32, TagFloat64, TagInt64, TagString, TagUInt8, TagDateTime,
     TagNullableString, TagArrayString}

DigitValue(c) ==
    CASE c = "0" -> 0 [] c = "1" -> 1 [] c = "2" -> 2 [] c = "3" -> 3 [] c = "4" -> 4
      [] c = "5" -> 5 [] c = "6" -> 6 [] c = "7" -> 7 [] c = "8" -> 8 [] c = "9" -> 9

RECURSIVE DecimalValue(_)
DecimalValue(digits) ==
    IF Len(digits) = 0 THEN 0
    ELSE 10 * DecimalValue(SubSeq(digits, 1, Len(digits) - 1)) + DigitValue(digits[Len(digits)])

ColonAt(ph) == CHOOSE i \in 1..Len(ph) : ph[i] = ":" /\ \A j \in 1..(i - 1) : ph[j] # ":"

\* ph has the form {param<digits>:<Tag>}
IsPlaceholder(ph) ==
    /\ Len(ph) >= 9
    /\ SubSeq(ph, 1, 6) = <<"{", "p", "a", "r", "a", "m">>
    /\ ph[Len(ph)] = "}"
    /\ \E i \in 8..Len(ph) : ph[i] = ":"
    /\ \A i \in 7..(ColonAt(ph) - 1) : ph[i] \in DigitChars
    /\ SubSeq(ph, ColonAt(ph) + 1, Len(ph) - 1) \in TagSet

PlaceholderIndex(ph) == DecimalValue(SubSeq(ph, 7, ColonAt(ph) - 1))

PlaceholderTag(ph) == SubSeq(ph, ColonAt(ph) + 1, Len(ph) - 1)

\* w is the wire value of v: whole seconds for a Date, 1 or 0 for a boolean,
\* the JSON text for an object, and v itself otherwise
IsWireOf(w, v) ==
    CASE v.kind = "date" /\ v.d # 0 ->
             w.kind = "number" /\ w.d = 1 /\ 1000 * w.n <= v.n /\ v.n < 1000 * (w.n + 1)
      [] v.kind = "date" /\ v.d = 0 -> w = NaN
      [] v.kind = "boolean" -> w = Num(v.n)
      [] v.kind = "object" -> w = Str(v.s)
      [] OTHER -> w = v

(***************************************************************************)
(* C1.  The k-th param() invocation since creation or the last reset()     *)
(* (k = 0..N-1, internal invocations by params(), values() and set()       *)
(* counted) returned {param<k>:<Tag>}, and getParams() has length N with   *)
(* the wire value of the k-th invocation at index k.                       *)
(***************************************************************************)
C1_PlaceholdersInCallOrder ==
    /\ Len(getParams(Self)) = Len(issued)
    /\ \A k \in 1..Len(issued) :
          /\ \E tag \in TagSet :
                issued[k].ret = <<"{", "p", "a", "r", "a", "m">> \o natToString(k - 1)
                                    \o <<":">> \o tag \o <<"}">>
          /\ IsWireOf(getParams(Self)[k], issued[k].value)

\* values() has run with at least three invocations in the log
C1_Witness ==
    /\ last.op = "values"
    /\ last.err = "none"
    /\ Len(issued) >= 3
    /\ Len(parts) > 0

(***************************************************************************)
(* C2.  In every reachable state, also after a call that threw and after   *)
(* reset(), parameters.length equals paramCounter, which equals the number *)
(* of placeholders issued since creation or the last reset(), and the      *)
(* placeholder carrying index N was issued for the value at parameters[N]. *)
(***************************************************************************)
C2_ParametersMatchCounter ==
    /\ Len(parameters) = paramCounter
    /\ paramCounter = Len(issued)
    /\ \A k \in 1..Len(issued) :
          /\ IsPlaceholder(issued[k].ret)
          /\ PlaceholderIndex(issued[k].ret) = k - 1
          /\ IsWireOf(parameters[k], issued[k].value)

\* set() threw on its second column after the first value was pushed
C2_Witness ==
    /\ last.op = "set"
    /\ last.err = "SQLInjectionError"
    /\ Len(parameters) >= 2
    /\ paramCounter = Len(parameters)

(***************************************************************************)
(* C3.  The counter never decreases except in a reset() step, and a        *)
(* reset() step empties parts, empties parameters and sets the counter to  *)
(* 0 together.                                                             *)
(***************************************************************************)
C3_CounterLoweredOnlyByReset ==
    [][/\ paramCounter' < paramCounter => last'.op = "reset"
       /\ last'.op # "reset" => paramCounter' >= paramCounter
       /\ last'.op = "reset" => parts' = <<>> /\ parameters' = <<>> /\ paramCounter' = 0]_vars

\* reset() was called on a builder that held parts and parameters
C3_Witness ==
    /\ last.op = "reset"
    /\ last.args.this.paramCounter > 0
    /\ Len(last.args.this.parameters) > 0
    /\ Len(last.args.this.parts) > 0
    /\ paramCounter = 0

(***************************************************************************)
(* C4.  After reset(), from any prior state, toSQL() is the empty string   *)
(* and getParams() is empty, the next param() returns a placeholder with   *)
(* index 0, and a second reset() changes nothing.                          *)
(***************************************************************************)
C4_ResetClears ==
    [][/\ last'.op = "reset" =>
              /\ arrayJoin(parts', <<" ">>) = <<>>
              /\ parameters' = <<>>
       /\ last.op = "reset" /\ last'.op = "param" /\ last'.err = "none" =>
              /\ IsPlaceholder(last'.ret)
              /\ PlaceholderIndex(last'.ret) = 0
       /\ last.op = "reset" /\ last'.op = "reset" =>
              /\ parts' = parts
              /\ parameters' = parameters
              /\ paramCounter' = paramCounter]_vars

\* reset() was called on what a failed set() left: a dangling SET and the
\* parameter of the column before the invalid one
C4_Witness ==
    /\ last.op = "reset"
    /\ last.args.this.parts = <<kwSET>>
    /\ Len(last.args.this.parameters) = 1
    /\ toSQL(Self) = <<>>
    /\ getParams(Self) = <<>>

(***************************************************************************)
(* Names, read character by character.                                     *)
(***************************************************************************)
NameText(name) == IF name.type = "string" THEN name.chars ELSE name.value

Letters == LowerCase \cup UpperCase

\* [A-Za-z_]
TokenFirst == Letters \cup {"_"}

\* [A-Za-z0-9_.]
Allowed == Letters \cup DigitChars \cup {"_", "."}

\* position i of text begins a dot-segment
SegmentStart(text, i) == i = 1 \/ text[i - 1] = "."

\* position i of text ends a dot-segment
SegmentEnd(text, i) == i = Len(text) \/ text[i + 1] = "."

\* one or more dot-separated tokens, each matching [A-Za-z_][A-Za-z0-9_]*
ValidName(text) ==
    /\ Len(text) > 0
    /\ text[Len(text)] # "."
    /\ \A i \in 1..Len(text) :
          IF SegmentStart(text, i)
          THEN text[i] \in TokenFirst
          ELSE text[i] \in Allowed

\* each token between one backtick and one backtick, the dots kept
RECURSIVE QuotedTokens(_, _)
QuotedTokens(text, i) ==
    IF i > Len(text) THEN <<>>
    ELSE (IF text[i] = "." THEN <<".">>
          ELSE (IF SegmentStart(text, i) THEN <<Backtick>> ELSE <<>>)
               \o <<text[i]>>
               \o (IF SegmentEnd(text, i) THEN <<Backtick>> ELSE <<>>))
         \o QuotedTokens(text, i + 1)

EmptyName(text) == Len(text) = 0

\* a leading, trailing or doubled dot
EmptySegment(text) ==
    /\ Len(text) > 0
    /\ \/ text[1] = "."
       \/ text[Len(text)] = "."
       \/ \E i \in 1..(Len(text) - 1) : text[i] = "." /\ text[i + 1] = "."

DigitFirstSegment(text) ==
    \E i \in 1..Len(text) : SegmentStart(text, i) /\ text[i] \in DigitChars

ForeignCharacter(text) ==
    \E i \in 1..Len(text) : text[i] \notin Allowed

(***************************************************************************)
(* C5.  identifier(name) never rejects a name made of one or more          *)
(* dot-separated tokens each matching [A-Za-z_][A-Za-z0-9_]*, and returns  *)
(* exactly those tokens, in order, each between one backtick and one       *)
(* backtick and joined by '.', every dot-segment quoted on its own.        *)
(***************************************************************************)
C5_ValidNameQuotedPerToken ==
    last.op = "identifier" /\ ValidName(NameText(last.args.name)) =>
        /\ last.err = "none"
        /\ last.ret = QuotedTokens(NameText(last.args.name), 1)

\* a name of three tokens came back as three quoted tokens
C5_Witness ==
    /\ last.op = "identifier"
    /\ NameText(last.args.name) = <<"a", ".", "Z", "9", ".", "_">>
    /\ last.ret = <<Backtick, "a", Backtick, ".", Backtick, "Z", "9", Backtick, ".",
                    Backtick, "_", Backtick>>

(***************************************************************************)
(* C6.  identifier(name) throws SQLInjectionError for every name that is   *)
(* empty, has a zero-length dot-segment (leading, trailing or doubled      *)
(* '.'), has a segment starting with a digit, or contains a character      *)
(* outside [A-Za-z0-9_.]; the throw leaves parts, parameters and the       *)
(* counter as they were before the call.                                   *)
(***************************************************************************)
C6_InvalidNameThrows ==
    [][(/\ last'.op = "identifier"
        /\ \/ EmptyName(NameText(last'.args.name))
           \/ EmptySegment(NameText(last'.args.name))
           \/ DigitFirstSegment(NameText(last'.args.name))
           \/ ForeignCharacter(NameText(last'.args.name)))
       => /\ last'.err = "SQLInjectionError"
          /\ parts' = parts
          /\ parameters' = parameters
          /\ paramCounter' = paramCounter]_vars

\* a name whose second segment starts with a digit was refused on a builder
\* that holds a part and a parameter
C6_Witness ==
    /\ last.op = "identifier"
    /\ NameText(last.args.name) = <<"a", ".", "1", "a">>
    /\ last.err = "SQLInjectionError"
    /\ Len(parts) > 0
    /\ Len(parameters) > 0

(***************************************************************************)
(* SQL text, read character by character.                                  *)
(***************************************************************************)
\* the letters of the names passed in SpecNames; no keyword, raw condition,
\* type text or placeholder passed or built there holds one of them
NameLetters == {"x", "q", "z"}

\* the names passed in SpecNames that validation refuses
RefusedNames == {NameBad, NameDigit}

TokenRest == Letters \cup DigitChars \cup {"_"}

Occurs(sub, text) ==
    \E i \in 0..(Len(text) - Len(sub)) : SubSeq(text, i + 1, i + Len(sub)) = sub

\* position i of text is inside a token that stands between two backticks
QuotedAt(text, i) ==
    /\ Cardinality({k \in 1..(i - 1) : text[k] = Backtick}) % 2 = 1
    /\ \E l \in 1..(i - 1), r \in (i + 1)..Len(text) :
          /\ text[l] = Backtick
          /\ text[r] = Backtick
          /\ text[l + 1] \in TokenFirst
          /\ \A k \in (l + 1)..(r - 1) : text[k] \in TokenRest

SafeText(text) ==
    /\ \A i \in 1..Len(text) : text[i] \in NameLetters => QuotedAt(text, i)
    /\ \A bad \in RefusedNames : ~Occurs(bad, text)

StatementFactories == {"buildSelect", "buildInsert", "buildUpdate", "buildDelete"}

DDLFactories == {"buildCreateTable", "buildDropTable"}

Factories == StatementFactories \cup DDLFactories

TableCalls == {"from", "join", "insertInto", "update", "deleteFrom"} \cup Factories

\* the SQL text the last call produced or left behind
ProducedText ==
    IF last.op \in StatementFactories THEN last.ret.sql
    ELSE IF last.op \in DDLFactories THEN last.ret
    ELSE toSQL(Self)

(***************************************************************************)
(* C7.  Every table, column or alias name passed to select (without '*'),  *)
(* from, orderBy, groupBy, join, insertInto, update, set, deleteFrom or to *)
(* a statement factory reaches the SQL text only through identifier(): in  *)
(* the text of the builder after any sequence of such calls, failed ones   *)
(* included, and in the text a factory returns, a name's letters stand     *)
(* only inside a valid token between two backticks, a name that fails      *)
(* validation does not occur at all, and the table of a call that          *)
(* succeeded is there in its quoted form.                                  *)
(***************************************************************************)
C7_NamesOnlyQuoted ==
    /\ SafeText(toSQL(Self))
    /\ last.err = "none" /\ last.op \in Factories =>
           SafeText(ProducedText)
    /\ last.err = "none" /\ last.op \in TableCalls =>
           Occurs(QuotedTokens(last.args.table, 1), ProducedText)

\* join() quoted its table and then threw on its alias
C7_Witness ==
    /\ last.op = "join"
    /\ last.err = "SQLInjectionError"
    /\ last.args.table = NameX
    /\ last.args.alias.value = NameBad
    /\ Occurs(<<Backtick, "x", Backtick>>, toSQL(Self))
    /\ ~Occurs(NameBad, toSQL(Self))

(***************************************************************************)
(* C8.  param(v) picks the wire value and the tag by the first row that    *)
(* matches: Date -> floor(epoch-ms / 1000), rounded toward minus infinity, *)
(* DateTime; boolean -> 1 or 0, UInt8; non-null, non-array, non-Date       *)
(* object -> its JSON text, String; null or undefined -> unchanged,        *)
(* Nullable(String); integer number -> unchanged, Int32; other number ->   *)
(* unchanged, Float64; bigint -> unchanged, Int64; string -> unchanged,    *)
(* String; array -> unchanged, Array(String); the tag is one of the eight. *)
(* An object that has no JSON text makes param() throw.                    *)
(***************************************************************************)
\* the parameter pushed last
Wire == parameters[Len(parameters)]

\* w is the whole number with 1000 * w <= ms < 1000 * (w + 1)
IsFloorOfThousandth(w, ms) ==
    /\ w.kind = "number"
    /\ w.d = 1
    /\ 1000 * w.n <= ms
    /\ ms < 1000 * (w.n + 1)

IsWholeNumber(v) == v.kind = "number" /\ v.d # 0 /\ (v.n \div v.d) * v.d = v.n

C8_Row(v, w, tag) ==
    CASE v.kind = "date" /\ v.d # 0 -> IsFloorOfThousandth(w, v.n) /\ tag = TagDateTime
      [] v.kind = "date" /\ v.d = 0 -> w = NaN /\ tag = TagDateTime
      [] v.kind = "boolean" ->
             w.kind = "number" /\ w.d = 1 /\ w.n = (IF v.n = 1 THEN 1 ELSE 0)
                 /\ tag = TagUInt8
      [] v.kind = "object" -> w.kind = "string" /\ w.s = v.s /\ tag = TagString
      [] v.kind = "null" \/ v.kind = "undefined" -> w = v /\ tag = TagNullableString
      [] v.kind = "number" /\ IsWholeNumber(v) -> w = v /\ tag = TagInt32
      [] v.kind = "number" /\ ~IsWholeNumber(v) -> w = v /\ tag = TagFloat64
      [] v.kind = "bigint" -> w = v /\ tag = TagInt64
      [] v.kind = "string" -> w = v /\ tag = TagString
      [] v.kind = "array" -> w = v /\ tag = TagArrayString
      [] OTHER -> w = v /\ tag \in TagSet

C8_WireAndTagByRow ==
    last.op = "param" =>
        IF last.args.value.kind = "object" /\ last.args.value.d = 0
        THEN last.err = "TypeError"
        ELSE /\ last.err = "none"
             /\ Len(parameters) > 0
             /\ IsPlaceholder(last.ret)
             /\ PlaceholderTag(last.ret) \in TagSet
             /\ C8_Row(last.args.value, Wire, PlaceholderTag(last.ret))

\* a Date one and a half seconds before the epoch was stored as -2
C8_Witness ==
    /\ last.op = "param"
    /\ last.args.value.kind = "date"
    /\ last.args.value.n = -1500
    /\ Wire.n = -2
    /\ PlaceholderTag(last.ret) = TagDateTime

(***************************************************************************)
(* C9.  The tag of a boolean or Date parameter is decided from the         *)
(* original value, not from the converted wire value: param(true) and      *)
(* param(1) store the same wire value 1, yet the first returns a UInt8     *)
(* placeholder and the second an Int32 placeholder; a Date yields a        *)
(* DateTime placeholder although its stored wire value is a plain integer. *)
(***************************************************************************)
IsTrue(v) == v.kind = "boolean" /\ v.n = 1

IsNumberOne(v) == v.kind = "number" /\ v.d = 1 /\ v.n = 1

C9_TagFromOriginalValue ==
    /\ Len(issued) = Len(parameters)
    /\ \A k \in 1..Len(issued) :
          /\ IsTrue(issued[k].value) =>
                 IsNumberOne(parameters[k]) /\ PlaceholderTag(issued[k].ret) = TagUInt8
          /\ IsNumberOne(issued[k].value) =>
                 IsNumberOne(parameters[k]) /\ PlaceholderTag(issued[k].ret) = TagInt32
          /\ issued[k].value.kind = "date" =>
                 /\ IsWholeNumber(parameters[k])
                 /\ PlaceholderTag(issued[k].ret) = TagDateTime
    /\ \A j, k \in 1..Len(issued) :
          IsTrue(issued[j].value) /\ IsNumberOne(issued[k].value) =>
              /\ parameters[j] = parameters[k]
              /\ PlaceholderTag(issued[j].ret) # PlaceholderTag(issued[k].ret)

\* values() was given 1, true and a Date: three whole numbers are stored, the
\* first two equal, under three different tags
C9_Witness ==
    /\ last.op = "values"
    /\ Len(issued) = 3
    /\ IsNumberOne(issued[1].value)
    /\ IsTrue(issued[2].value)
    /\ issued[3].value.kind = "date"
    /\ parameters[1] = parameters[2]
    /\ IsWholeNumber(parameters[3])
    /\ PlaceholderTag(issued[1].ret) = TagInt32
    /\ PlaceholderTag(issued[2].ret) = TagUInt8
    /\ PlaceholderTag(issued[3].ret) = TagDateTime

(***************************************************************************)
(* C10.  select(fields) throws SQLInjectionError when fields is empty and  *)
(* leaves the state unchanged; when fields contains '*' anywhere it        *)
(* appends exactly the tokens 'SELECT' and a bare '*', the other entries   *)
(* being neither emitted nor validated; otherwise it appends 'SELECT' and  *)
(* then the quoted fields in input order joined by ', '.                   *)
(***************************************************************************)
HasStar(fields) == \E i \in 1..Len(fields) : fields[i] = <<"*">>

AllValid(fields) == \A i \in 1..Len(fields) : ValidName(fields[i])

\* the quoted fields in input order, a comma and a space between two
RECURSIVE QuotedList(_)
QuotedList(fields) ==
    IF Len(fields) = 0 THEN <<>>
    ELSE IF Len(fields) = 1 THEN QuotedTokens(fields[1], 1)
    ELSE QuotedTokens(fields[1], 1) \o <<",", " ">> \o QuotedList(Tail(fields))

C10_SelectByCase ==
    [][last'.op = "select" =>
          /\ parameters' = parameters
          /\ paramCounter' = paramCounter
          /\ Len(last'.args.fields) = 0 =>
                 last'.err = "SQLInjectionError" /\ parts' = parts
          /\ HasStar(last'.args.fields) =>
                 /\ last'.err = "none"
                 /\ parts' = parts \o <<<<"S", "E", "L", "E", "C", "T">>, <<"*">>>>
          /\ Len(last'.args.fields) > 0 /\ ~HasStar(last'.args.fields)
                 /\ AllValid(last'.args.fields) =>
                 /\ last'.err = "none"
                 /\ parts' = parts \o <<<<"S", "E", "L", "E", "C", "T">>,
                                        QuotedList(last'.args.fields)>>]_vars

\* a list with a refused name before the wildcard was accepted on a builder
\* that held a part, and SELECT and * are the two parts it added
C10_Witness ==
    /\ last.op = "select"
    /\ last.err = "none"
    /\ Len(last.args.fields) = 2
    /\ last.args.fields[1] = NameBad
    /\ last.args.fields[2] = Star
    /\ Len(parts) = 3
    /\ parts[2] = kwSELECT
    /\ parts[3] = Star

(***************************************************************************)
(* C11.  On one builder the first orderBy() that returns emits             *)
(* 'ORDER BY <id> <dir>' and every later one appends ', <id> <dir>': after *)
(* k >= 1 orderBy() calls that returned, between other clause builders,    *)
(* the text holds the keyword 'ORDER BY' exactly once and lists the k      *)
(* fields in call order; after reset() the next orderBy() emits the        *)
(* keyword again.  The statement does not hold of orderBy(): it looks for  *)
(* the keyword in all the text emitted so far, whoever emitted it.         *)
(***************************************************************************)
OrderByKeyword == <<"O", "R", "D", "E", "R", " ", "B", "Y">>

Occurrences(sub, text) ==
    Cardinality({i \in 0..(Len(text) - Len(sub)) : SubSeq(text, i + 1, i + Len(sub)) = sub})

\* '<id> <dir>' of an orderBy() call, the direction defaulting to ASC
OrderItem(args) ==
    QuotedTokens(args.field, 1) \o <<" ">>
        \o (IF args.direction.given THEN args.direction.value ELSE <<"A", "S", "C">>)

\* the items occur in text from position from on, one after the other
RECURSIVE ListedFrom(_, _, _)
ListedFrom(items, text, start) ==
    IF Len(items) = 0 THEN TRUE
    ELSE \E i \in start..(Len(text) - Len(OrderItem(items[1])) + 1) :
            /\ SubSeq(text, i, i + Len(OrderItem(items[1])) - 1) = OrderItem(items[1])
            /\ ListedFrom(Tail(items), text, i + Len(OrderItem(items[1])))

C11_OrderByKeywordOnce ==
    [][last'.op = "orderBy" /\ last'.err = "none" =>
          /\ parts' = parts \o
                 <<IF ordered = <<>> THEN OrderByKeyword ELSE <<",">>,
                   QuotedTokens(last'.args.field, 1),
                   IF last'.args.direction.given THEN last'.args.direction.value
                   ELSE <<"A", "S", "C">>>>
          /\ Occurrences(OrderByKeyword, arrayJoin(parts', <<" ">>)) = 1
          /\ ListedFrom(ordered', arrayJoin(parts', <<" ">>), 1)]_vars

\* the first orderBy() that returned came after raw text that holds the
\* keyword: the builder's parts are that text, a comma, the field and ASC
C11_Witness ==
    /\ last.op = "orderBy"
    /\ last.err = "none"
    /\ Len(ordered) = 1
    /\ parts = <<TextOrder, <<",">>, <<Backtick, "x", Backtick>>, kwASC>>

(***************************************************************************)
(* C12.  limit(count) and offset(count) throw SQLInjectionError for every  *)
(* negative count and leave parts, parameters and the counter unchanged    *)
(* when they throw; for every count >= 0, 0 included, they append the      *)
(* keyword and then the decimal text of count.                             *)
(***************************************************************************)
\* text is the decimal numeral of n >= 0: digits only, no leading zero
IsDecimalOf(text, n) ==
    /\ Len(text) > 0
    /\ \A i \in 1..Len(text) : text[i] \in DigitChars
    /\ Len(text) > 1 => text[1] # "0"
    /\ DecimalValue(text) = n

CountKeyword(op) ==
    IF op = "limit" THEN <<"L", "I", "M", "I", "T">> ELSE <<"O", "F", "F", "S", "E", "T">>

C12_CountSignDecides ==
    [][last'.op = "limit" \/ last'.op = "offset" =>
          /\ parameters' = parameters
          /\ paramCounter' = paramCounter
          /\ last'.args.count < 0 =>
                 last'.err = "SQLInjectionError" /\ parts' = parts
          /\ last'.args.count >= 0 =>
                 /\ last'.err = "none"
                 /\ Len(parts') = Len(parts) + 2
                 /\ SubSeq(parts', 1, Len(parts)) = parts
                 /\ parts'[Len(parts) + 1] = CountKeyword(last'.op)
                 /\ IsDecimalOf(parts'[Len(parts) + 2], last'.args.count)]_vars

\* limit(0) was accepted on a builder that held a part
C12_Witness ==
    /\ last.op = "limit"
    /\ last.args.count = 0
    /\ last.err = "none"
    /\ Len(parts) = 3
    /\ parts[2] = kwLIMIT
    /\ parts[3] = <<"0">>

(***************************************************************************)
(* C13.  join(kind, table, on, alias) appends, in this order, '<kind>      *)
(* JOIN', the quoted table, then 'AS' and the quoted alias only if an      *)
(* alias is given, then 'ON' and the on text only if on is supplied and    *)
(* kind is not CROSS; for kind CROSS no 'ON' token is ever appended, even  *)
(* when on is supplied.                                                    *)
(***************************************************************************)
JoinWord == <<" ", "J", "O", "I", "N">>
CrossWord == <<"C", "R", "O", "S", "S">>
AsToken == <<"A", "S">>
OnToken == <<"O", "N">>

\* a string argument that was passed and is not the empty string
Supplied(arg) == arg.given /\ arg.value # <<>>

JoinAlias(alias) ==
    IF Supplied(alias) THEN <<AsToken, QuotedTokens(alias.value, 1)>> ELSE <<>>

JoinOn(type, on) ==
    IF Supplied(on) /\ type # CrossWord THEN <<OnToken, on.value>> ELSE <<>>

C13_JoinPartsInOrder ==
    [][last'.op = "join" =>
          /\ last'.err = "none" =>
                 parts' = parts
                          \o <<last'.args.type \o JoinWord,
                               QuotedTokens(last'.args.table, 1)>>
                          \o JoinAlias(last'.args.alias)
                          \o JoinOn(last'.args.type, last'.args.on)
          /\ last'.args.type = CrossWord =>
                 \A i \in (Len(parts) + 1)..Len(parts') : parts'[i] # OnToken]_vars

\* a CROSS join with an on text and an alias went through after another part
C13_Witness ==
    /\ last.op = "join"
    /\ last.err = "none"
    /\ last.args.type = CrossWord
    /\ Supplied(last.args.on)
    /\ Supplied(last.args.alias)
    /\ Len(parts) = 5
    /\ parts[4] = AsToken

(***************************************************************************)
(* C14.  values(rows) appends every value of every row to the one flat     *)
(* parameter list in row-major order, continuing from the current counter: *)
(* with c parameters before the call and rows of lengths n1..nm, the value *)
(* at row i, column j (columns counted from 0, as placeholder indexes are) *)
(* receives placeholder index c + n1 + ... + n(i-1) + j; each row is       *)
(* emitted as one parenthesised comma-joined placeholder group, and the    *)
(* groups appear in row order.                                             *)
(***************************************************************************)
\* n1 + ... + n(i-1)
RECURSIVE RowsBefore(_, _)
RowsBefore(rows, i) ==
    IF i <= 1 THEN 0 ELSE RowsBefore(rows, i - 1) + Len(rows[i - 1])

\* the texts joined by ', '
RECURSIVE CommaJoined(_)
CommaJoined(texts) ==
    IF Len(texts) = 0 THEN <<>>
    ELSE IF Len(texts) = 1 THEN texts[1]
    ELSE texts[1] \o <<",", " ">> \o CommaJoined(Tail(texts))

\* the placeholder the log holds for row i, column j (from 1), after c earlier ones
CellPlaceholder(log, c, rows, i, j) == log[c + RowsBefore(rows, i) + j].ret

RowGroup(log, c, rows, i) ==
    <<"(">> \o CommaJoined([j \in 1..Len(rows[i]) |-> CellPlaceholder(log, c, rows, i, j)])
            \o <<")">>

C14_ValuesRowMajor ==
    [][last'.op = "values" /\ last'.err = "none" =>
          LET rows == last'.args.rows
              c == paramCounter
              total == RowsBefore(rows, Len(rows) + 1)
          IN  /\ c = Len(parameters)
              /\ Len(parameters') = c + total
              /\ SubSeq(parameters', 1, c) = parameters
              /\ Len(issued') = c + total
              /\ \A i \in 1..Len(rows) : \A j \in 1..Len(rows[i]) :
                    /\ IsPlaceholder(CellPlaceholder(issued', c, rows, i, j))
                    /\ PlaceholderIndex(CellPlaceholder(issued', c, rows, i, j))
                           = c + RowsBefore(rows, i) + (j - 1)
                    /\ IsWireOf(parameters'[c + RowsBefore(rows, i) + j], rows[i][j])
              /\ parts' = parts \o <<<<"V", "A", "L", "U", "E", "S">>,
                                     CommaJoined([i \in 1..Len(rows) |->
                                                     RowGroup(issued', c, rows, i)])>>]_vars

\* two rows of lengths 2 and 1 were added to a builder that held a parameter
C14_Witness ==
    /\ last.op = "values"
    /\ last.err = "none"
    /\ Len(last.args.rows) = 2
    /\ Len(last.args.rows[1]) = 2
    /\ Len(parameters) = 4
    /\ Len(parts) = 2
    /\ PlaceholderIndex(issued[4].ret) = 3

(***************************************************************************)
(* C15.  set(updates) emits one '<quoted column> = <placeholder>'          *)
(* assignment per entry of the mapping, in the mapping's iteration order,  *)
(* joined by ', ' after the keyword 'SET'; every column name is validated  *)
(* and every value is appended to parameters in that same order, so the    *)
(* i-th assignment carries the placeholder issued for the i-th value.      *)
(***************************************************************************)
\* '<quoted column> = <placeholder>' for entry i, after c earlier placeholders
Assigned(log, c, updates, i) ==
    QuotedTokens(updates[i].key, 1) \o <<" ", "=", " ">> \o log[c + i].ret

C15_SetAssignmentsInOrder ==
    [][last'.op = "set" /\ last'.err = "none" =>
          LET updates == last'.args.updates
              c == paramCounter
          IN  /\ c = Len(parameters)
              /\ Len(parameters') = c + Len(updates)
              /\ SubSeq(parameters', 1, c) = parameters
              /\ Len(issued') = c + Len(updates)
              /\ \A i \in 1..Len(updates) :
                    /\ ValidName(updates[i].key)
                    /\ IsPlaceholder(issued'[c + i].ret)
                    /\ PlaceholderIndex(issued'[c + i].ret) = c + i - 1
                    /\ issued'[c + i].value = updates[i].value
                    /\ IsWireOf(parameters'[c + i], updates[i].value)
              /\ parts' = parts \o <<<<"S", "E", "T">>,
                                     CommaJoined([i \in 1..Len(updates) |->
                                                     Assigned(issued', c, updates, i)])>>]_vars

\* two columns were set on a builder that held a part and a parameter
C15_Witness ==
    /\ last.op = "set"
    /\ last.err = "none"
    /\ Len(last.args.updates) = 2
    /\ Len(parameters) = 3
    /\ Len(parts) = 3
    /\ PlaceholderIndex(issued[3].ret) = 2

(***************************************************************************)
(* C16.  build().sql and toSQL() both equal the current parts joined by    *)
(* exactly one space character; build(), toSQL(), getParams() and          *)
(* identifier() are read-only, changing none of parts, parameters and the  *)
(* counter, so repeated build() calls return equal sql and params.         *)
(***************************************************************************)
ReadOnlyCalls == {"build", "toSQL", "getParams", "identifier"}

\* the texts with one space between each two neighbours
RECURSIVE SpaceJoined(_)
SpaceJoined(texts) ==
    IF Len(texts) = 0 THEN <<>>
    ELSE IF Len(texts) = 1 THEN texts[1]
    ELSE SpaceJoined(SubSeq(texts, 1, Len(texts) - 1)) \o <<" ">> \o texts[Len(texts)]

C16_BuildJoinsAndReads ==
    [][/\ last'.op = "build" => last'.ret.sql = SpaceJoined(parts)
       /\ last'.op = "toSQL" => last'.ret = SpaceJoined(parts)
       /\ last'.op \in ReadOnlyCalls =>
              /\ parts' = parts
              /\ parameters' = parameters
              /\ paramCounter' = paramCounter
       /\ last.op = "build" /\ last'.op = "build" =>
              /\ last'.ret.sql = last.ret.sql
              /\ last'.ret.params = last.ret.params]_vars

\* build() was called twice in a row on a builder with two parts and a parameter
C16_Witness ==
    /\ last.op = "build"
    /\ Len(parts) = 2
    /\ Len(parameters) > 0
    /\ last.ret.sql = parts[1] \o <<" ">> \o parts[2]
    /\ last.ret.params = parameters

(***************************************************************************)
(* C17.  build().params is the builder's live parameter list, not a copy:  *)
(* a later param() on the same builder is visible through the array an     *)
(* earlier build() returned, and writing to that array changes what        *)
(* getParams() and later build() calls return.  reset() replaces the list  *)
(* rather than truncating it: an array returned before reset() keeps its   *)
(* old contents and is unaffected by later calls.                          *)
(***************************************************************************)
KeepCalls == {"build", "getParams"}

C17_BuildParamsIsLiveList ==
    [][/\ last'.op = "build" => held'.items = parameters
       /\ held.from = "build" /\ ~held.stale /\ last'.op \notin KeepCalls =>
              /\ last'.op = "param" =>
                     /\ Len(held'.items) = Len(held.items) + 1
                     /\ held'.items = parameters'
              /\ last'.op = "write" =>
                     /\ held'.items = arrayWritten(held.items, last'.args.how, last'.args.value)
                     /\ parameters' = held'.items
              /\ last'.op = "reset" =>
                     /\ held'.items = held.items
                     /\ parameters' = <<>>
       /\ held.from = "build" /\ held.stale /\ last'.op \notin KeepCalls =>
              /\ last'.op # "write" => held'.items = held.items
              /\ last'.op = "write" => parameters' = parameters]_vars

\* the array build() returned with one parameter showed the second one, kept
\* both over reset(), and does not show the parameter added since
C17_Witness ==
    /\ held.from = "build"
    /\ held.stale
    /\ Len(held.kept) = 1
    /\ Len(held.items) = 2
    /\ last.op = "param"
    /\ Len(parameters) = 1

(***************************************************************************)
(* C18.  getParams() returns a defensive copy: writing to the returned     *)
(* array never changes the builder's parameters, its counter, or what a    *)
(* later build() or getParams() returns, and a later param() never changes *)
(* an array getParams() returned earlier.                                  *)
(***************************************************************************)
C18_GetParamsIsCopy ==
    [][/\ last'.op = "getParams" => last'.ret = parameters /\ held'.items = parameters
       /\ held.from = "getParams" /\ last'.op = "write" =>
              /\ held'.items = arrayWritten(held.items, last'.args.how, last'.args.value)
              /\ parameters' = parameters
              /\ paramCounter' = paramCounter
       /\ held.from = "getParams" /\ last'.op \notin KeepCalls /\ last'.op # "write" =>
              held'.items = held.items]_vars

\* the array getParams() returned with one parameter was pushed to, and the
\* builder then took a second parameter of its own
C18_Witness ==
    /\ held.from = "getParams"
    /\ Len(held.kept) = 1
    /\ held.items = <<One, Zero>>
    /\ last.op = "param"
    /\ parameters = <<One, One>>
    /\ paramCounter = 2

(***************************************************************************)
(* C19.  A failed call leaves prior accumulated state intact: whenever an  *)
(* operation of the builder throws SQLInjectionError, the parts and        *)
(* parameters accumulated before the call are still present, unmodified    *)
(* and in the same order, the counter is not lowered, and the failed       *)
(* clause is not completed: neither the offending identifier nor anything  *)
(* that would follow it in the clause is appended to parts.                *)
(***************************************************************************)
\* the keyword tokens of the clause builders
ClauseKeywords ==
    {kwSELECT, kwFROM, kwAS, kwORDERBY, <<",">>, kwGROUPBY, kwINSERTINTO, kwUPDATE, kwSET,
     kwDELETEFROM}
    \cup {kind \o JoinWord : kind \in JoinKinds}

\* the quoted forms of the valid names that are passed
QuotedValid == {QuotedTokens(n, 1) : n \in {n \in Names : ValidName(n)}}

PartsBeforeFailure == ClauseKeywords \cup QuotedValid

\* the number of parts the clause appends when the call returns
ClauseLength(op, args) ==
    CASE op = "from" -> IF Supplied(args.alias) THEN 4 ELSE 2
      [] op = "orderBy" -> 3
      [] op = "insertInto" -> 3
      [] op = "join" -> 2 + (IF Supplied(args.alias) THEN 2 ELSE 0)
                          + (IF Supplied(args.on) /\ args.type # CrossWord THEN 2 ELSE 0)
      [] OTHER -> 2

C19_FailureKeepsState ==
    [][last'.err = "SQLInjectionError" =>
          /\ Len(parts') >= Len(parts)
          /\ SubSeq(parts', 1, Len(parts)) = parts
          /\ Len(parameters') >= Len(parameters)
          /\ SubSeq(parameters', 1, Len(parameters)) = parameters
          /\ paramCounter' >= paramCounter
          /\ Len(parts') - Len(parts) < ClauseLength(last'.op, last'.args)
          /\ \A i \in (Len(parts) + 1)..Len(parts') :
                /\ parts'[i] \in PartsBeforeFailure
                /\ \A bad \in RefusedNames : ~Occurs(bad, parts'[i])]_vars

\* set() threw on its second column, on a builder that held a part and a
\* parameter: both are there, with SET and the first column's value after them
C19_Witness ==
    /\ last.op = "set"
    /\ last.err = "SQLInjectionError"
    /\ parts = <<TextOne, kwSET>>
    /\ parameters = <<One, One>>
    /\ paramCounter = 2

(***************************************************************************)
(* C20.  buildInsert(table, []) with an empty record list throws           *)
(* SQLInjectionError before any SQL is produced: the check happens before  *)
(* the table name is validated or any clause is built, so the empty list   *)
(* is rejected even when the table name is itself invalid, and no          *)
(* {sql, params} result is returned.                                       *)
(***************************************************************************)
C20_EmptyInsertRejectedFirst ==
    last.op = "buildInsert" /\ Len(last.args.data.records) = 0 =>
        /\ last.err = "SQLInjectionError"
        /\ last.message = "INSERT requires at least one record"
        /\ last.ret = <<>>

\* an empty list was passed with a table name that validation refuses
C20_Witness ==
    /\ last.op = "buildInsert"
    /\ last.args.table \in RefusedNames
    /\ last.args.data.isArray
    /\ last.args.data.records = <<>>
    /\ last.err = "SQLInjectionError"
    /\ last.message = "INSERT requires at least one record"

(***************************************************************************)
(* C21.  The INSERT, UPDATE and DELETE factories reject an empty record    *)
(* set (no columns) with the injection-class error: buildInsert given a    *)
(* record with no keys and buildUpdate given an empty data mapping throw   *)
(* SQLInjectionError instead of returning SQL with an empty column list or *)
(* an empty SET clause.                                                    *)
(***************************************************************************)
\* buildInsert was given a record with no keys
InsertWithoutColumns ==
    /\ last.op = "buildInsert"
    /\ Len(last.args.data.records) > 0
    /\ Len(last.args.data.records[1]) = 0

\* buildUpdate was given an empty data mapping
UpdateWithoutColumns ==
    /\ last.op = "buildUpdate"
    /\ Len(last.args.data) = 0

C21_NoColumnsRejected ==
    InsertWithoutColumns \/ UpdateWithoutColumns => last.err = "SQLInjectionError"

\* buildInsert('x', {}) returned a statement with an empty column list
C21_Witness ==
    /\ InsertWithoutColumns
    /\ ValidName(last.args.table)
    /\ last.err = "none"
    /\ Occurs(<<"(", ")", " ", "V", "A", "L", "U", "E", "S", " ", "(", ")">>, last.ret.sql)
    /\ last.ret.params = <<>>

(***************************************************************************)
(* C22.  In the {sql, params} result of every statement factory, the       *)
(* placeholders read left to right in sql carry the indexes 0, 1, ..., n-1 *)
(* with no gap or repeat, n equals params.length, and params[i] is the     *)
(* wire value bound to the placeholder with index i; in buildUpdate all    *)
(* SET values therefore precede all WHERE values in params.  The factories *)
(* never substitute a value into the text in place of its placeholder.     *)
(***************************************************************************)
ParamWord == <<"{", "p", "a", "r", "a", "m">>

\* the positions of sql where a placeholder begins
PlaceholderStarts(sql) ==
    {i \in 1..Len(sql) : i + 5 <= Len(sql) /\ SubSeq(sql, i, i + 5) = ParamWord}

\* the placeholder that begins at position i, up to its closing brace
PlaceholderFrom(sql, i) ==
    SubSeq(sql, i, CHOOSE j \in i..Len(sql) :
                      sql[j] = "}" /\ \A k \in i..(j - 1) : sql[k] # "}")

\* how many placeholders begin to the left of position i
Rank(sql, i) == Cardinality({j \in PlaceholderStarts(sql) : j < i})

\* the values of a mapping in iteration order
ValuesOf(entries) == [i \in 1..Len(entries) |-> entries[i].value]

\* the value a record holds for a key, undefined when it has none
ValueAt(record, key) ==
    IF \E i \in 1..Len(record) : record[i].key = key
    THEN record[CHOOSE i \in 1..Len(record) : record[i].key = key].value
    ELSE Undefined

\* the values of all records for the keys of the first record, record by record
RECURSIVE InsertValues(_, _)
InsertValues(records, first) ==
    IF Len(records) = 0 THEN <<>>
    ELSE [j \in 1..Len(first) |-> ValueAt(records[1], first[j].key)]
         \o InsertValues(Tail(records), first)

\* the values a factory call has to bind, in the order of the statement
BoundValues(op, args) ==
    CASE op = "buildSelect" ->
             IF args.options.where.given THEN ValuesOf(args.options.where.value) ELSE <<>>
      [] op = "buildInsert" -> InsertValues(args.data.records, args.data.records[1])
      [] op = "buildUpdate" -> ValuesOf(args.data) \o ValuesOf(args.where)
      [] op = "buildDelete" -> ValuesOf(args.where)

C22_FactoryPlaceholdersInOrder ==
    last.op \in StatementFactories /\ last.err = "none" =>
        LET sql == last.ret.sql
            bindings == last.ret.params
            bound == BoundValues(last.op, last.args)
        IN  /\ Cardinality(PlaceholderStarts(sql)) = Len(bindings)
            /\ Len(bindings) = Len(bound)
            /\ \A i \in PlaceholderStarts(sql) :
                  /\ IsPlaceholder(PlaceholderFrom(sql, i))
                  /\ PlaceholderIndex(PlaceholderFrom(sql, i)) = Rank(sql, i)
                  /\ IsWireOf(bindings[Rank(sql, i) + 1], bound[Rank(sql, i) + 1])

\* buildUpdate returned with two SET values and one WHERE value
C22_Witness ==
    /\ last.op = "buildUpdate"
    /\ last.err = "none"
    /\ Len(last.args.data) = 2
    /\ Len(last.args.where) = 1
    /\ Len(last.ret.params) = 3
    /\ Cardinality(PlaceholderStarts(last.ret.sql)) = 3

(***************************************************************************)
(* C23.  buildSelect, buildUpdate and buildDelete treat their filter as a  *)
(* flat AND of equalities: a 'WHERE' keyword is emitted if and only if the *)
(* filter mapping has at least one key; when it has keys k1..km the WHERE  *)
(* condition is exactly '<quoted k1> = <placeholder> AND ... AND <quoted   *)
(* km> = <placeholder>' in the mapping's iteration order, and with an      *)
(* empty filter the statement has no WHERE and contributes no parameters.  *)
(***************************************************************************)
FilterFactories == {"buildSelect", "buildUpdate", "buildDelete"}

WhereWord == <<"W", "H", "E", "R", "E">>

\* the filter mapping of a factory call, empty when none is passed
Filter(op, args) ==
    IF op = "buildSelect"
    THEN (IF args.options.where.given THEN args.options.where.value ELSE <<>>)
    ELSE args.where

\* the number of values the statement binds before those of its filter
BoundBefore(op, args) == IF op = "buildUpdate" THEN Len(args.data) ELSE 0

\* the placeholder of sql that has k placeholders to its left
NthPlaceholder(sql, k) ==
    PlaceholderFrom(sql, CHOOSE i \in PlaceholderStarts(sql) : Rank(sql, i) = k)

\* the texts joined by ' AND '
RECURSIVE AndJoined(_)
AndJoined(texts) ==
    IF Len(texts) = 0 THEN <<>>
    ELSE IF Len(texts) = 1 THEN texts[1]
    ELSE texts[1] \o <<" ", "A", "N", "D", " ">> \o AndJoined(Tail(texts))

\* 'WHERE <quoted k1> = <placeholder> AND ...' with the placeholders of sql
WhereClause(sql, filter, before) ==
    WhereWord \o <<" ">>
        \o AndJoined([i \in 1..Len(filter) |->
                         QuotedTokens(filter[i].key, 1) \o <<" ", "=", " ">>
                             \o NthPlaceholder(sql, before + i - 1)])

\* text occurs in sql as whole parts: at a part boundary on either side
OccursAsParts(text, sql) ==
    \E i \in 0..(Len(sql) - Len(text)) :
        /\ SubSeq(sql, i + 1, i + Len(text)) = text
        /\ i > 0 => sql[i] = " "
        /\ i + Len(text) < Len(sql) => sql[i + Len(text) + 1] = " "

C23_FilterIsFlatAnd ==
    last.op \in FilterFactories /\ last.err = "none" =>
        LET sql == last.ret.sql
            filter == Filter(last.op, last.args)
            before == BoundBefore(last.op, last.args)
        IN  /\ Occurs(WhereWord, sql) <=> Len(filter) > 0
            /\ Occurrences(WhereWord, sql) <= 1
            /\ Len(last.ret.params) = before + Len(filter)
            /\ Len(filter) > 0 =>
                   /\ Cardinality(PlaceholderStarts(sql)) = before + Len(filter)
                   /\ OccursAsParts(WhereClause(sql, filter, before), sql)

\* buildDelete returned a statement with a filter of two keys
C23_Witness ==
    /\ last.op = "buildDelete"
    /\ last.err = "none"
    /\ Len(last.args.where) = 2
    /\ Occurs(<<" ", "A", "N", "D", " ">>, last.ret.sql)
    /\ Len(last.ret.params) = 2

(***************************************************************************)
(* C24.  buildSelect always emits its clauses in the fixed order SELECT,   *)
(* FROM, WHERE, ORDER BY, LIMIT, OFFSET whatever the order of keys in the  *)
(* options bag; it selects '*' when no field list is given; an ordering    *)
(* map with several entries produces a single 'ORDER BY' keyword followed  *)
(* by the entries in iteration order; LIMIT and OFFSET are emitted         *)
(* whenever the option is defined, including the value 0.                  *)
(***************************************************************************)
DigitChar(d) == CHOOSE c \in DigitChars : DigitValue(c) = d

\* the decimal numeral of n >= 0
RECURSIVE Numeral(_)
Numeral(n) ==
    IF n < 10 THEN <<DigitChar(n)>> ELSE Numeral(n \div 10) \o <<DigitChar(n % 10)>>

\* '<id> <dir>' of the entries of an ordering map, ' , ' between two
RECURSIVE OrderList(_)
OrderList(entries) ==
    IF Len(entries) = 0 THEN <<>>
    ELSE QuotedTokens(entries[1].key, 1) \o <<" ">> \o entries[1].value
         \o (IF Len(entries) = 1 THEN <<>> ELSE <<" ", ",", " ">> \o OrderList(Tail(entries)))

SelectClause(options) ==
    <<"S", "E", "L", "E", "C", "T", " ">>
        \o (IF ~options.fields.given \/ HasStar(options.fields.value)
            THEN <<"*">>
            ELSE QuotedList(options.fields.value))

FromClause(table) == <<" ", "F", "R", "O", "M", " ">> \o QuotedTokens(table, 1)

WherePart(sql, options) ==
    IF options.where.given /\ Len(options.where.value) > 0
    THEN <<" ">> \o WhereClause(sql, options.where.value, 0)
    ELSE <<>>

OrderPart(options) ==
    IF options.orderBy.given /\ Len(options.orderBy.value) > 0
    THEN <<" ">> \o OrderByKeyword \o <<" ">> \o OrderList(options.orderBy.value)
    ELSE <<>>

LimitPart(options) ==
    IF options.limit.given
    THEN <<" ", "L", "I", "M", "I", "T", " ">> \o Numeral(options.limit.value)
    ELSE <<>>

OffsetPart(options) ==
    IF options.offset.given
    THEN <<" ", "O", "F", "F", "S", "E", "T", " ">> \o Numeral(options.offset.value)
    ELSE <<>>

C24_SelectClausesInOrder ==
    last.op = "buildSelect" /\ last.err = "none" =>
        last.ret.sql = SelectClause(last.args.options)
                       \o FromClause(last.args.table)
                       \o WherePart(last.ret.sql, last.args.options)
                       \o OrderPart(last.args.options)
                       \o LimitPart(last.args.options)
                       \o OffsetPart(last.args.options)

\* every option was given: a filter, an ordering map of two entries, a limit
\* and the offset 0
C24_Witness ==
    /\ last.op = "buildSelect"
    /\ last.err = "none"
    /\ last.args.options.where.given
    /\ last.args.options.orderBy.given
    /\ Len(last.args.options.orderBy.value) = 2
    /\ last.args.options.limit.given
    /\ last.args.options.offset.given
    /\ last.args.options.offset.value = 0
    /\ Occurs(<<" ", "O", "F", "F", "S", "E", "T", " ", "0">>, last.ret.sql)

(***************************************************************************)
(* C25.  Distinct SQLBuilder instances share no state: for every           *)
(* interleaving of two callers that each operate on their own instance,    *)
(* each instance's build() result equals the result of running that        *)
(* caller's operations alone; each statement factory call uses a fresh     *)
(* assembler, so its output depends only on its arguments, its             *)
(* placeholders start at index 0, and calling it twice with equal          *)
(* arguments gives equal results.                                          *)
(***************************************************************************)
\* the builder a caller has after making the calls of log alone, on a new one
RECURSIVE Alone(_)
Alone(log) ==
    IF Len(log) = 0 THEN NewBuilder
    ELSE Apply(Alone(SubSeq(log, 1, Len(log) - 1)), log[Len(log)]).b

C25_InstancesShareNothing ==
    /\ build(Self) = build(Alone(peer.mine))
    /\ build(peer.b) = build(Alone(peer.theirs))
    /\ \A s1 \in peer.seen, s2 \in peer.seen :
          s1.op = s2.op /\ s1.args = s2.args => s1 = s2
    /\ \A s \in peer.seen :
          s.err = "none" =>
              /\ Cardinality(PlaceholderStarts(s.ret.sql)) = Len(s.ret.params)
              /\ \A i \in PlaceholderStarts(s.ret.sql) :
                    PlaceholderIndex(PlaceholderFrom(s.ret.sql, i)) = Rank(s.ret.sql, i)

\* both callers have set two columns and added more to their own builder, the
\* peer last, and both factories have been called in between
C25_Witness ==
    /\ last.op = "peer"
    /\ Len(peer.mine) = MaxCalls
    /\ Len(peer.theirs) = MaxCalls
    /\ paramCounter = 2
    /\ peer.b.paramCounter = 2
    /\ Len(parts) > 2
    /\ Len(peer.b.parts) > 2
    /\ parts # peer.b.parts
    /\ Cardinality(peer.seen) = 2

(***************************************************************************)
(* C26.  raw(text), where(cond), and(cond) and or(cond) append the         *)
(* caller's text verbatim, with no validation or escaping, where/and/or    *)
(* preceded by their keyword as a separate part; they leave the parameter  *)
(* list and the counter unchanged and never throw.                         *)
(***************************************************************************)
TextCalls == {"raw", "where", "and", "or"}

\* the parts one of these calls adds for the caller's text
TextParts(op, text) ==
    CASE op = "raw" -> <<text>>
      [] op = "where" -> <<WhereWord, text>>
      [] op = "and" -> <<<<"A", "N", "D">>, text>>
      [] op = "or" -> <<<<"O", "R">>, text>>

\* the text the caller gave
TextGiven(call) == IF call.op = "raw" THEN call.args.sql ELSE call.args.condition

C26_TextAppendedVerbatim ==
    [][last'.op \in TextCalls =>
          /\ last'.err = "none"
          /\ parts' = parts \o TextParts(last'.op, TextGiven(last'))
          /\ parameters' = parameters
          /\ paramCounter' = paramCounter]_vars

\* where() has appended a text that is no identifier, after a parameter
C26_Witness ==
    /\ last.op = "where"
    /\ last.err = "none"
    /\ last.args.condition = TextOrder
    /\ ~ ValidName(TextOrder)
    /\ Len(parts) >= 2
    /\ parts[Len(parts)] = TextOrder
    /\ paramCounter > 0

(***************************************************************************)
(* C27.  buildCreateTable emits its tokens in a fixed order: CREATE TABLE, *)
(* IF NOT EXISTS (only when the flag is set), the quoted table name, the   *)
(* parenthesised column list in mapping order, then ENGINE, ORDER BY,      *)
(* PARTITION BY and PRIMARY KEY, each only when its option is non-empty.   *)
(* The table name, every column name and every ORDER BY / PRIMARY KEY      *)
(* column are validated and quoted, an invalid one making the call throw;  *)
(* the column type strings, the engine string and the partition            *)
(* expression are emitted verbatim.                                        *)
(***************************************************************************)
\* option field of a buildCreateTable call, absent when no options are given
TableOption(options, field) == IF options.given THEN options.value[field] ELSE Absent

IfNotExistsSet(options) == options.given /\ options.value.ifNotExists

\* the names of the columns of a mapping, in its order
RECURSIVE ColumnNames(_)
ColumnNames(columns) ==
    IF Len(columns) = 0 THEN <<>> ELSE <<columns[1].key>> \o ColumnNames(Tail(columns))

\* quoted name, a space, the type as given, for each column in mapping order
RECURSIVE ColumnTexts(_)
ColumnTexts(columns) ==
    IF Len(columns) = 0 THEN <<>>
    ELSE <<QuotedTokens(columns[1].key, 1) \o <<" ">> \o columns[1].value>>
         \o ColumnTexts(Tail(columns))

\* the names the call has to validate
CreateTableNames(a) ==
    <<a.table>> \o ColumnNames(a.columns)
    \o (IF Supplied(TableOption(a.options, "orderBy"))
        THEN TableOption(a.options, "orderBy").value ELSE <<>>)
    \o (IF Supplied(TableOption(a.options, "primaryKey"))
        THEN TableOption(a.options, "primaryKey").value ELSE <<>>)

CreateTableText(a) ==
    <<"C", "R", "E", "A", "T", "E", " ", "T", "A", "B", "L", "E">>
    \o (IF IfNotExistsSet(a.options)
        THEN <<" ", "I", "F", " ", "N", "O", "T", " ", "E", "X", "I", "S", "T", "S">>
        ELSE <<>>)
    \o <<" ">> \o QuotedTokens(a.table, 1)
    \o <<" ", "(">> \o CommaJoined(ColumnTexts(a.columns)) \o <<")">>
    \o (IF Supplied(TableOption(a.options, "engine"))
        THEN <<" ", "E", "N", "G", "I", "N", "E", " ", "=", " ">>
             \o TableOption(a.options, "engine").value
        ELSE <<>>)
    \o (IF Supplied(TableOption(a.options, "orderBy"))
        THEN <<" ", "O", "R", "D", "E", "R", " ", "B", "Y", " ", "(">>
             \o QuotedList(TableOption(a.options, "orderBy").value) \o <<")">>
        ELSE <<>>)
    \o (IF Supplied(TableOption(a.options, "partitionBy"))
        THEN <<" ", "P", "A", "R", "T", "I", "T", "I", "O", "N", " ", "B", "Y", " ">>
             \o TableOption(a.options, "partitionBy").value
        ELSE <<>>)
    \o (IF Supplied(TableOption(a.options, "primaryKey"))
        THEN <<" ", "P", "R", "I", "M", "A", "R", "Y", " ", "K", "E", "Y", " ", "(">>
             \o QuotedList(TableOption(a.options, "primaryKey").value) \o <<")">>
        ELSE <<>>)

C27_CreateTableTokensInOrder ==
    last.op = "buildCreateTable" =>
        IF AllValid(CreateTableNames(last.args))
        THEN last.err = "none" /\ last.ret = CreateTableText(last.args)
        ELSE last.err = "SQLInjectionError"

\* a table created with the flag and all four options, two columns in each list
C27_Witness ==
    /\ last.op = "buildCreateTable"
    /\ last.err = "none"
    /\ IfNotExistsSet(last.args.options)
    /\ Len(last.args.columns) = 2
    /\ Supplied(TableOption(last.args.options, "engine"))
    /\ Supplied(TableOption(last.args.options, "partitionBy"))
    /\ Len(TableOption(last.args.options, "orderBy").value) = 2
    /\ Len(TableOption(last.args.options, "primaryKey").value) = 1
    /\ Occurs(<<")", " ", "P", "R", "I", "M", "A", "R", "Y", " ", "K", "E", "Y", " ", "(",
                Backtick, "x", Backtick, ")">>, last.ret)

(***************************************************************************)
(* C28.  orderBy decides between emitting 'ORDER BY' and ',' by testing    *)
(* whether the whole emitted text (parts joined by spaces) contains the    *)
(* substring 'ORDER BY'; consequently, if any earlier fragment contains    *)
(* that substring (text given to raw(), where(), and(), or() or a join ON  *)
(* condition), the first orderBy call appends ', <id> <dir>' and no        *)
(* 'ORDER BY' keyword of its own.                                          *)
(***************************************************************************)
\* some part of the list holds the keyword
InFragment(texts) == \E i \in 1..Len(texts) : Occurs(OrderByKeyword, texts[i])

C28_OrderByScansWholeText ==
    [][last'.op = "orderBy" =>
          /\ Len(parts') > Len(parts)
          /\ SubSeq(parts', 1, Len(parts)) = parts
          /\ parts'[Len(parts) + 1] =
                 (IF Occurs(OrderByKeyword, SpaceJoined(parts)) THEN <<",">>
                  ELSE OrderByKeyword)
          /\ ordered = <<>> /\ InFragment(parts) /\ last'.err = "none" =>
                 /\ parts' = parts \o <<<<",">>, QuotedTokens(last'.args.field, 1),
                                        IF last'.args.direction.given
                                        THEN last'.args.direction.value
                                        ELSE <<"A", "S", "C">>>>
                 /\ Occurrences(OrderByKeyword, SpaceJoined(parts')) =
                        Occurrences(OrderByKeyword, SpaceJoined(parts))]_vars

\* the first orderBy() came right after a join whose ON condition holds the
\* keyword: a comma follows the condition
C28_Witness ==
    /\ last.op = "orderBy"
    /\ last.err = "none"
    /\ Len(ordered) = 1
    /\ Len(parts) = 7
    /\ parts[3] = OnToken
    /\ parts[4] = TextOrder
    /\ parts[5] = <<",">>
    /\ parts[6] = <<Backtick, "x", Backtick>>

(***************************************************************************)
(* C29.  When from, groupBy, join, insertInto, update, deleteFrom, set, a  *)
(* first orderBy, or select (non-empty list without '*') throws because    *)
(* an identifier is invalid, the clause keyword pushed before validation   *)
(* remains in parts: toSQL() after the failure is the prior text followed  *)
(* by that keyword, and a later valid orderBy after a failed first orderBy *)
(* appends ', <id> <dir>' directly after the dangling keyword; only        *)
(* select([]), limit(negative), offset(negative) and identifier() itself   *)
(* fail with parts exactly unchanged.                                      *)
(*                                                                         *)
(* As checked: what remains is everything the call pushed before it        *)
(* reached the invalid identifier.  That is the keyword alone when the     *)
(* first identifier the call validates is the invalid one; from and join   *)
(* with a valid table and an invalid alias leave the keyword, the quoted   *)
(* table and 'AS', and insertInto with a valid table and an invalid field  *)
(* leaves 'INSERT INTO' and the quoted table.                              *)
(***************************************************************************)
\* the calls that push their keyword before they validate a name
KeywordFirstCalls ==
    {"select", "from", "groupBy", "join", "insertInto", "update", "deleteFrom", "set",
     "orderBy"}

\* the calls that validate before they push, or push nothing
CheckFirstCalls == {"limit", "offset", "identifier", "identifiers"}

\* the keyword the call pushes first, given the text emitted before it
ClauseKeyword(call, before) ==
    CASE call.op = "select" -> kwSELECT
      [] call.op = "from" -> kwFROM
      [] call.op = "groupBy" -> kwGROUPBY
      [] call.op = "join" -> call.args.type \o JoinWord
      [] call.op = "insertInto" -> kwINSERTINTO
      [] call.op = "update" -> kwUPDATE
      [] call.op = "deleteFrom" -> kwDELETEFROM
      [] call.op = "set" -> kwSET
      [] call.op = "orderBy" ->
             IF Occurs(OrderByKeyword, SpaceJoined(before)) THEN <<",">> ELSE kwORDERBY

\* a call that pushes its keyword first has thrown on a name
ThrewOnName(call) ==
    /\ call.op \in KeywordFirstCalls
    /\ call.err = "SQLInjectionError"
    /\ call.op = "select" => Len(call.args.fields) > 0

\* the parts a failed call has pushed after its keyword: the table it found
\* valid, and AS when it then refused the alias
PushedAfterKeyword(call) ==
    IF /\ call.op = "from" \/ call.op = "join" \/ call.op = "insertInto"
       /\ ValidName(call.args.table)
    THEN <<QuotedTokens(call.args.table, 1)>>
         \o (IF call.op = "insertInto" THEN <<>> ELSE <<AsToken>>)
    ELSE <<>>

\* a valid orderBy right after a first orderBy that failed
OrderByAfterFailedFirst ==
    /\ last.op = "orderBy"
    /\ last.err = "SQLInjectionError"
    /\ Len(parts) > 0
    /\ parts[Len(parts)] = kwORDERBY
    /\ last'.op = "orderBy"
    /\ last'.err = "none"

OrderByFollowsDangling ==
    OrderByAfterFailedFirst =>
        parts' = parts \o <<<<",">>, QuotedTokens(last'.args.field, 1),
                            IF last'.args.direction.given THEN last'.args.direction.value
                            ELSE <<"A", "S", "C">>>>

\* among the calls that throw SQLInjectionError, those that leave parts as
\* they were are select([]), limit, offset, identifier
UnchangedOnlyWhenCheckedFirst ==
    last'.err = "SQLInjectionError" =>
        (parts' = parts <=>
            \/ last'.op \in CheckFirstCalls
            \/ last'.op = "select" /\ Len(last'.args.fields) = 0)

FirstInvalid(updates) ==
    CHOOSE k \in 1..Len(updates) :
        /\ ~ValidName(updates[k].key)
        /\ \A j \in 1..(k - 1) : ValidName(updates[j].key)

\* set() has thrown on an entry that is not the first
SetThrewLater(call) ==
    /\ call.op = "set"
    /\ call.err = "SQLInjectionError"
    /\ \E k \in 2..Len(call.args.updates) : ~ValidName(call.args.updates[k].key)
    /\ ValidName(call.args.updates[1].key)

\* the number of values that set() left without a placeholder
Orphaned(call) == FirstInvalid(call.args.updates) - 1

C30_SetOrphansParameters ==
    [][/\ SetThrewLater(last') =>
              /\ Len(parameters') = Len(parameters) + Orphaned(last')
              /\ SubSeq(parameters', 1, Len(parameters)) = parameters
              /\ \A j \in 1..Orphaned(last') :
                    IsWireOf(parameters'[Len(parameters) + j], last'.args.updates[j].value)
              /\ paramCounter' = paramCounter + Orphaned(last')
              /\ parts' = Append(parts, kwSET)
              /\ Cardinality(PlaceholderStarts(SpaceJoined(parts'))) =
                     Cardinality(PlaceholderStarts(SpaceJoined(parts)))
              /\ Len(parameters') > Cardinality(PlaceholderStarts(SpaceJoined(parts')))
       /\ SetThrewLater(last) /\ last'.op = "param" /\ last'.err = "none" =>
              /\ PlaceholderIndex(last'.ret) = paramCounter
              /\ PlaceholderIndex(last'.ret) >= Orphaned(last)]_vars

\* param() right after set() threw on its second entry, on a new builder:
\* the placeholder has index 1, the orphaned value holds index 0, and the
\* text has no placeholder
C30_Witness ==
    /\ last.op = "param"
    /\ last.err = "none"
    /\ PlaceholderIndex(last.ret) = 1
    /\ parts = <<kwSET>>
    /\ Len(parameters) = 2
    /\ paramCounter = 2

(***************************************************************************)
(* C31.  After any sequence of successful clause-builder calls on a        *)
(* SQLBuilder in which param()/params() are never called directly by the   *)
(* caller (placeholders are produced only by values() and set()), the      *)
(* number of placeholders occurring in toSQL() equals getParams().length   *)
(* and they occur left to right in strictly increasing index order         *)
(* starting at 0.                                                          *)
(***************************************************************************)
C31_PlaceholdersMatchParams ==
    /\ Cardinality(PlaceholderStarts(toSQL(Self))) = Len(getParams(Self))
    /\ \A i \in PlaceholderStarts(toSQL(Self)) :
          /\ IsPlaceholder(PlaceholderFrom(toSQL(Self), i))
          /\ PlaceholderIndex(PlaceholderFrom(toSQL(Self), i)) = Rank(toSQL(Self), i)

\* values() with two rows has followed set() with two columns: five
\* placeholders in the text, the last with index 4
C31_Witness ==
    /\ last.op = "values"
    /\ last.err = "none"
    /\ Len(last.args.rows) = 2
    /\ parts[1] = kwSET
    /\ Len(getParams(Self)) = 5
    /\ Cardinality(PlaceholderStarts(toSQL(Self))) = 5
    /\ Occurs(<<"{", "p", "a", "r", "a", "m", "4", ":">>, toSQL(Self))

(***************************************************************************)
(* C32.  param(v) tags every integer-valued number as Int32 regardless of  *)
(* magnitude: an integer outside the signed 32-bit range                   *)
(* [-2^31, 2^31 - 1] (for example 2^31) is stored unchanged and still      *)
(* receives the Int32 tag, never Int64.                                    *)
(***************************************************************************)
RECURSIVE TwoTo(_)
TwoTo(e) == IF e = 0 THEN 1 ELSE 2 * TwoTo(e - 1)

Magnitude(n) == IF n < 0 THEN 0 - n ELSE n

\* v is an integer below -2^31 or above 2^31 - 1
OutsideInt32(v) ==
    /\ v.kind = "number"
    /\ "e" \in DOMAIN v
    /\ v.d = 1
    /\ v.n # 0
    /\ \/ v.e >= 32
       \/ v.e = 31 /\ v.n # -1
       \/ v.e <= 30 /\ Magnitude(v.n) > 2147483647 \div TwoTo(v.e)

C32_IntegersTaggedInt32 ==
    last.op = "param" /\ (IsWholeNumber(last.args.value) \/ OutsideInt32(last.args.value)) =>
        /\ last.err = "none"
        /\ PlaceholderTag(last.ret) = <<"I", "n", "t", "3", "2">>
        /\ PlaceholderTag(last.ret) # <<"I", "n", "t", "6", "4">>
        /\ parameters[Len(parameters)] = last.args.value

\* param(2^31) has returned
C32_Witness ==
    /\ last.op = "param"
    /\ last.err = "none"
    /\ OutsideInt32(last.args.value)
    /\ last.args.value.n = 1
    /\ last.args.value.e = 31
    /\ parameters = <<last.args.value>>
    /\ last.ret = <<"{", "p", "a", "r", "a", "m", "0", ":", "I", "n", "t", "3", "2", "}">>

(***************************************************************************)
(* C33.  buildInsert with several records takes the column list from the   *)
(* keys of the first record only: every row is emitted with exactly those  *)
(* columns in that order, params has length (number of records) x (number  *)
(* of first-record keys), a key present only in a later record is ignored  *)
(* and never validated, and a first-record key missing from a later record *)
(* contributes an undefined value tagged Nullable(String).                 *)
(***************************************************************************)
HasKey(record, key) == \E i \in 1..Len(record) : record[i].key = key

\* '(<placeholder>, ...)' for row r of n columns, with the placeholders of sql
RowText(sql, r, n) ==
    <<"(">> \o CommaJoined([j \in 1..n |-> NthPlaceholder(sql, (r - 1) * n + j - 1)])
    \o <<")">>

InsertText(sql, table, cols, count) ==
    <<"I", "N", "S", "E", "R", "T", " ", "I", "N", "T", "O", " ">>
    \o QuotedTokens(table, 1)
    \o <<" ", "(">> \o QuotedList(cols) \o <<")">>
    \o <<" ", "V", "A", "L", "U", "E", "S", " ">>
    \o CommaJoined([r \in 1..count |-> RowText(sql, r, Len(cols))])

C33_ColumnsFromFirstRecord ==
    last.op = "buildInsert" /\ Len(last.args.data.records) > 0 =>
        LET records == last.args.data.records
            cols == ColumnNames(records[1])
            n == Len(cols)
            sql == last.ret.sql
            bindings == last.ret.params
        IN IF ValidName(last.args.table) /\ AllValid(cols)
           THEN /\ last.err = "none"
                /\ Len(bindings) = Len(records) * n
                /\ Cardinality(PlaceholderStarts(sql)) = Len(records) * n
                /\ sql = InsertText(sql, last.args.table, cols, Len(records))
                /\ \A r \in 1..Len(records), j \in 1..n :
                      /\ IsWireOf(bindings[(r - 1) * n + j], ValueAt(records[r], cols[j]))
                      /\ ~HasKey(records[r], cols[j]) =>
                             /\ bindings[(r - 1) * n + j] = Undefined
                             /\ PlaceholderTag(NthPlaceholder(sql, (r - 1) * n + j - 1)) =
                                    <<"N", "u", "l", "l", "a", "b", "l", "e", "(",
                                      "S", "t", "r", "i", "n", "g", ")">>
                /\ \A r \in 2..Len(records) :
                      \A i \in 1..Len(records[r]) :
                          ~HasKey(records[1], records[r][i].key) =>
                              ~Occurs(records[r][i].key, sql)
           ELSE last.err = "SQLInjectionError"

\* two records, the second with an invalid key the first lacks and without
\* the second key of the first: four parameters, the last undefined
C33_Witness ==
    /\ last.op = "buildInsert"
    /\ last.err = "none"
    /\ Len(last.args.data.records) = 2
    /\ Len(last.args.data.records[1]) = 2
    /\ \E i \in 1..Len(last.args.data.records[2]) :
          /\ ~ValidName(last.args.data.records[2][i].key)
          /\ ~HasKey(last.args.data.records[1], last.args.data.records[2][i].key)
    /\ ~HasKey(last.args.data.records[2], last.args.data.records[1][2].key)
    /\ Len(last.ret.params) = 4
    /\ last.ret.params[4] = Undefined

(***************************************************************************)
(* C34.  limit(count) and offset(count) put the count into the SQL text as *)
(* a literal and never as a placeholder: they leave parameters and the     *)
(* counter unchanged, so a statement built with LIMIT/OFFSET has the same  *)
(* params as the same statement without them.                              *)
(***************************************************************************)
\* the options of a buildSelect call with limit and offset taken out
WithoutCounts(options) == [options EXCEPT !.limit = Absent, !.offset = Absent]

\* the same buildSelect call without limit and offset
Uncounted(call) == buildSelect(call.args.table, WithoutCounts(call.args.options))

C34_CountsAreLiterals ==
    [][/\ last'.op = "limit" \/ last'.op = "offset" =>
              /\ parameters' = parameters
              /\ paramCounter' = paramCounter
              /\ getParams(Builder(parts', parameters', paramCounter', issued')) =
                     getParams(Self)
              /\ last'.err = "none" =>
                     /\ parts' = parts \o <<CountKeyword(last'.op), Numeral(last'.args.count)>>
                     /\ Cardinality(PlaceholderStarts(SpaceJoined(parts'))) =
                            Cardinality(PlaceholderStarts(SpaceJoined(parts)))
       /\ last'.op = "buildSelect" /\ last'.err = "none" =>
              /\ Uncounted(last').err = "none"
              /\ last'.ret.params = Uncounted(last').ret.params
              /\ last'.ret.sql = Uncounted(last').ret.sql
                                     \o LimitPart(last'.args.options)
                                     \o OffsetPart(last'.args.options)
              /\ Cardinality(PlaceholderStarts(last'.ret.sql)) =
                     Cardinality(PlaceholderStarts(Uncounted(last').ret.sql))]_vars

\* buildSelect with a filter of two keys, LIMIT 10 and OFFSET 0 has returned
\* two parameters, as it does without limit and offset
C34_Witness ==
    /\ last.op = "buildSelect"
    /\ last.err = "none"
    /\ last.args.options.limit.given
    /\ last.args.options.limit.value = 10
    /\ last.args.options.offset.given
    /\ last.args.options.offset.value = 0
    /\ Len(last.ret.params) = 2
    /\ Uncounted(last).ret.params = last.ret.params
    /\ Uncounted(last).ret.sql # last.ret.sql

(***************************************************************************)
(* C35.  For every name accepted by validation the escaper's defensive     *)
(* backtick doubling never fires: the output of identifier(name) contains  *)
(* exactly two backticks per token, and removing them gives back the input *)
(* name unchanged (round trip), so no validated name can close its quoting *)
(* early.                                                                  *)
(***************************************************************************)
\* text without its backticks
RECURSIVE Unquoted(_)
Unquoted(text) ==
    IF Len(text) = 0 THEN <<>>
    ELSE (IF text[1] = Backtick THEN <<>> ELSE <<text[1]>>) \o Unquoted(Tail(text))

CountOf(char, text) == Cardinality({i \in 1..Len(text) : text[i] = char})

\* the backtick at position i of text opens or closes a token: it stands at
\* an end of the text or next to a dot, and no backtick is doubled
AtTokenEdge(text, i) ==
    /\ i = 1 \/ i = Len(text) \/ text[i - 1] = "." \/ text[i + 1] = "."
    /\ i < Len(text) => ~(text[i + 1] = Backtick /\ (i = 1 \/ text[i - 1] = "."))

C35_QuotingRoundTrip ==
    last.op = "identifier" /\ last.err = "none" =>
        /\ CountOf(Backtick, NameText(last.args.name)) = 0
        /\ CountOf(Backtick, last.ret) = 2 * (CountOf(".", NameText(last.args.name)) + 1)
        /\ Unquoted(last.ret) = NameText(last.args.name)
        /\ ~Occurs(<<Backtick, Backtick>>, last.ret)
        /\ \A i \in 1..Len(last.ret) : last.ret[i] = Backtick => AtTokenEdge(last.ret, i)

\* a name of two tokens came back with four backticks, at the token edges
C35_Witness ==
    /\ last.op = "identifier"
    /\ last.err = "none"
    /\ NameText(last.args.name) = <<"a", ".", "Z", "1">>
    /\ CountOf(Backtick, last.ret) = 4
    /\ Unquoted(last.ret) = <<"a", ".", "Z", "1">>
    /\ Len(last.ret) = 8

====
